---- MODULE Spec2Model ----
(***************************************************************************)
(* A model of velovision's camera capture engine (src/src/streaming.py):   *)
(* the Camera worker thread, Camera.stop, Camera.get_frame and the         *)
(* CameraManager registry, and of the schedule table kept by               *)
(* sync_schedules (src/src/triggers.py).                                   *)
(***************************************************************************)
EXTENDS Integers, Sequences, FiniteSets, TLC

\* ------------------------------------------------------------------ bounds
\* Camera objects that can be constructed in one run.
MaxHandles == 2
\* Frames one source delivers before it runs dry.
MaxFrames == 2
\* Errors after which an open capture stops raising or half-succeeding.
MaxErrorCount == 52
\* Minutes the clock advances after the scheduler has started.
MaxTicks == 3

\* Camera.max_errors
max_errors == 50

H == 1..MaxHandles
CamIds == {"c1", "c2"}
Readers == {"r1", "r2"}
\* Test doubles for the capture source. "flaky" may fail or succeed at any
\* call; "unopenable" fails every open; "unreadable" opens, and fails every
\* grab or retrieve; "idle" opens and then has no frame to deliver, so that
\* grab() blocks until the capture is released. A further double, "steady",
\* opens and delivers a frame at every read while the capture is open.
SourceKinds == {"flaky", "unopenable", "unreadable", "idle"}
None == 0

VARIABLES
    cameras,     \* CameraManager.cameras: sequence of [id, h], in dict order
    nexth,       \* number of Camera objects constructed so far
    cam,         \* cam[h]: the fields of Camera object h
    pc,          \* pc[h]: where the worker thread of Camera h is
    first_run,   \* first_run[h]: _update's local first_run
    hist,        \* hist[h]: history of Camera h (no code reads it)
    seen,        \* seen[r][h]: what reader r's last get_frame on h returned
    got,         \* the get_frame call that has just returned, if any
    ret,         \* the registry call that has just returned, if any
    ref,         \* history: ids whose last registry operation was add_camera
    config,      \* src.config.config: the in-memory configuration
    jobs,        \* the scheduler's job table: a set of jobs, each with an id
    synced,      \* sync_schedules has just returned
    now,         \* the scheduler's clock, in minutes since Monday 00:00
    pool,        \* the executor: the runs submitted and not finished, in order
    fired,       \* the runs due at the tick that has just passed: submitted or skipped
    result,      \* what the job body that has just returned returned
    req,         \* req[t]: the request thread t serves step by step, if any
    stream,      \* the live stream of GET /video_feed: its Camera and its counter
    lock,        \* lock[h]: the holder of Camera h's lock and the pending get_frame calls
    call,        \* call[t]: the CameraManager call thread t is in, and what its last returned
    disk         \* the second of the wall clock, and the event images and rows written in it

vars == <<cameras, nexth, cam, pc, first_run, hist, seen, got, ret, ref,
          config, jobs, synced, now, pool, fired, result, req,
          stream, lock, call, disk>>

\* ------------------------------------------------------------ the registry
Ids(cams) == {cams[i].id : i \in 1..Len(cams)}

Index(cams, id) == CHOOSE i \in 1..Len(cams) : cams[i].id = id

\* self.cameras.get(camera_id)
get_camera(cams, id) == IF id \in Ids(cams) THEN cams[Index(cams, id)].h ELSE None

\* Mutant of DictSet: the new handle is always appended, the old entry stays.
DictSetAppends(cams, id, h) == Append(cams, [id |-> id, h |-> h])

\* self.cameras[camera_id] = cam: an existing key keeps its place in the dict
DictSet(cams, id, h) ==
    IF id \in Ids(cams)
    THEN [cams EXCEPT ![Index(cams, id)] = [id |-> id, h |-> h]]
    ELSE Append(cams, [id |-> id, h |-> h])

\* del self.cameras[camera_id]
DictDel(cams, id) ==
    LET i == Index(cams, id)
    IN  SubSeq(cams, 1, i - 1) \o SubSeq(cams, i + 1, Len(cams))

\* --------------------------------------------------------------- Camera
\* Camera.__init__: the fields of a new Camera; its thread starts at once.
NewCamera(kind) ==
    [source |-> kind, running |-> TRUE, error_count |-> 0, video |-> "none",
     last_encoded_frame |-> None]

NoCamera ==
    [source |-> "flaky", running |-> FALSE, error_count |-> 0, video |-> "none",
     last_encoded_frame |-> None]

NewHist(id) ==
    [id |-> id, opens |-> 0, opened_ok |-> FALSE, stopped |-> FALSE, store_count |-> 0,
     late_opens |-> 0, late_stores |-> 0, slept |-> 0]

\* if self.video and self.video.isOpened(): self.video.release()
Release(v) == IF v = "open" THEN "closed" ELSE v

\* Mutant of Stop: stop() also drops the cached frame.
StopClearing(c) ==
    [c EXCEPT !.running = FALSE, !.video = Release(@), !.last_encoded_frame = None]

\* Camera.stop: clear the running flag, release the capture if it is open.
Stop(c) == [c EXCEPT !.running = FALSE, !.video = Release(@)]

Exited(h) == pc[h] \in {"done", "failed"}

Alive(h) == pc[h] \notin {"unborn", "done", "failed"}

\* A direct call of Camera.stop() on a constructed Camera.
stop(h) ==
    /\ pc[h] # "unborn"
    /\ cam' = [cam EXCEPT ![h] = Stop(@)]
    /\ hist' = [hist EXCEPT ![h].stopped = TRUE]
    /\ UNCHANGED <<pc, first_run>>

\* Mutant of LoopCheck: while True, the loop no longer reads the flag.
LoopCheckIgnoresFlag(h) ==
    /\ pc[h] = "loop"
    /\ pc' = [pc EXCEPT ![h] = "check"]
    /\ UNCHANGED <<cam, first_run, hist>>

\* while self.running:
LoopCheck(h) ==
    /\ pc[h] = "loop"
    /\ pc' = [pc EXCEPT ![h] = IF cam[h].running THEN "check" ELSE "done"]
    /\ UNCHANGED <<cam, first_run, hist>>

\* if self.video is None or not self.video.isOpened():
CheckVideo(h) ==
    /\ pc[h] = "check"
    /\ pc' = [pc EXCEPT ![h] =
                IF cam[h].video = "open" THEN "grab"
                ELSE IF first_run[h] THEN "incr" ELSE "sleep"]
    /\ UNCHANGED <<cam, first_run, hist>>

\* Mutant of sleep_time: the cap is missing.
SleepTimeUncapped(error_count) == 10 + error_count * 5

\* sleep_time = min(5.0, 1.0 + (self.error_count * 0.5)), in tenths of a
\* second
sleep_time(error_count) ==
    IF 10 + error_count * 5 < 50 THEN 10 + error_count * 5 ELSE 50

\* time.sleep(sleep_time) before a retry; hist keeps the time slept in this
\* pass of the loop
Cooldown(h) ==
    /\ pc[h] = "sleep"
    /\ pc' = [pc EXCEPT ![h] = "incr"]
    /\ hist' = [hist EXCEPT ![h].slept = sleep_time(cam[h].error_count)]
    /\ UNCHANGED <<cam, first_run>>

\* Mutant of OverBudget: off by one, one attempt too many.
OverBudgetOffByOne(n) == n > max_errors + 1

\* if self.error_count > self.max_errors
OverBudget(n) == n > max_errors

\* first_run = False; error_count += 1; over the budget: running = False; break
CountAttempt(h) ==
    /\ pc[h] = "incr"
    /\ first_run' = [first_run EXCEPT ![h] = FALSE]
    /\ IF OverBudget(cam[h].error_count + 1)
       THEN /\ cam' = [cam EXCEPT ![h].error_count = @ + 1, ![h].running = FALSE]
            /\ pc' = [pc EXCEPT ![h] = "failed"]
       ELSE /\ cam' = [cam EXCEPT ![h].error_count = @ + 1]
            /\ pc' = [pc EXCEPT ![h] = "open"]
    /\ hist' = [hist EXCEPT ![h].slept = 0]

\* What cv2.VideoCapture(source) can do: open, come back unopened, or raise.
OpenOutcomes(kind) ==
    CASE kind = "unopenable" -> {"closed", "raise"}
      [] kind \in {"unreadable", "idle", "steady"} -> {"ok"}
      [] OTHER -> {"ok", "closed", "raise"}

\* Mutant of Open: without the continue, the pass goes on to grab.
OpenFallsThrough(h) ==
    /\ pc[h] = "open"
    /\ \E o \in OpenOutcomes(cam[h].source) :
         /\ cam' = [cam EXCEPT
                      ![h].video = IF o = "ok" THEN "open"
                                   ELSE IF o = "closed" THEN "closed" ELSE @,
                      ![h].error_count = IF o = "ok" THEN 0 ELSE @]
         /\ hist' = [hist EXCEPT
                      ![h].opened_ok = @ \/ o = "ok",
                      ![h].opens = IF hist[h].opened_ok \/ o = "ok" THEN 0 ELSE @ + 1,
                      ![h].late_opens = IF hist[h].stopped THEN @ + 1 ELSE @]
    /\ pc' = [pc EXCEPT ![h] = "grab"]
    /\ UNCHANGED first_run

\* self.video = cv2.VideoCapture(...); error_count = 0 if it opened; continue
Open(h) ==
    /\ pc[h] = "open"
    /\ \E o \in OpenOutcomes(cam[h].source) :
         /\ cam' = [cam EXCEPT
                      ![h].video = IF o = "ok" THEN "open"
                                   ELSE IF o = "closed" THEN "closed" ELSE @,
                      ![h].error_count = IF o = "ok" THEN 0 ELSE @]
         /\ hist' = [hist EXCEPT
                      ![h].opened_ok = @ \/ o = "ok",
                      ![h].opens = IF hist[h].opened_ok \/ o = "ok" THEN 0 ELSE @ + 1,
                      ![h].late_opens = IF hist[h].stopped THEN @ + 1 ELSE @]
    /\ pc' = [pc EXCEPT ![h] = "loop"]
    /\ UNCHANGED first_run

\* What grab() can do on the capture as it is now. A released capture
\* (stop() ran meanwhile) returns False or raises. An idle source blocks.
\* An open capture whose errors have reached MaxErrorCount only returns
\* False from then on, which keeps error_count finite: the paths that grow
\* it after an "ok" or a "raise" never test it.
GrabOutcomes(kind, v, n) ==
    IF v # "open" THEN {"fail", "raise"}
    ELSE IF kind = "idle" THEN {}
    ELSE IF kind = "steady" THEN {"ok"}
    ELSE IF n < MaxErrorCount THEN {"ok", "fail", "raise"}
    ELSE {"fail"}

\* What retrieve() and imencode can do: "noencode" is a retrieved frame that
\* imencode refuses.
RetrieveOutcomes(kind, v) ==
    IF v # "open" THEN {"fail", "raise"}
    ELSE IF kind = "unreadable" THEN {"fail", "raise"}
    ELSE IF kind = "steady" THEN {"ok", "noencode"}
    ELSE {"ok", "noencode", "fail", "raise"}

\* if not self.video.grab(): error_count += 1; release every fifth; continue
\* (an exception counts an error too, in the handler of the loop body)
Grab(h) ==
    /\ pc[h] = "grab"
    /\ \E o \in GrabOutcomes(cam[h].source, cam[h].video, cam[h].error_count) :
         \/ /\ o = "ok"
            /\ pc' = [pc EXCEPT ![h] = "retrieve"]
            /\ UNCHANGED cam
         \/ /\ o = "fail"
            /\ cam' = [cam EXCEPT
                         ![h].error_count = @ + 1,
                         ![h].video = IF (cam[h].error_count + 1) % 5 = 0
                                      THEN Release(@) ELSE @]
            /\ pc' = [pc EXCEPT ![h] = "loop"]
         \/ /\ o = "raise"
            /\ cam' = [cam EXCEPT ![h].error_count = @ + 1]
            /\ pc' = [pc EXCEPT ![h] = "loop"]
    /\ UNCHANGED <<first_run, hist>>

\* success, frame = self.video.retrieve(); encode; count a failure
Retrieve(h) ==
    /\ pc[h] = "retrieve"
    /\ \E o \in RetrieveOutcomes(cam[h].source, cam[h].video) :
         \/ /\ o = "ok"
            /\ hist[h].store_count < MaxFrames
            /\ cam' = [cam EXCEPT ![h].error_count = 0]
            /\ pc' = [pc EXCEPT ![h] = "store"]
         \/ /\ o = "noencode"
            /\ cam' = [cam EXCEPT ![h].error_count = 0]
            /\ pc' = [pc EXCEPT ![h] = "loop"]
         \/ /\ o \in {"fail", "raise"}
            /\ cam' = [cam EXCEPT ![h].error_count = @ + 1]
            /\ pc' = [pc EXCEPT ![h] = "loop"]
    /\ UNCHANGED <<first_run, hist>>

\* Mutant of Store: the frame is cached once and never replaced.
StoreOnce(h) ==
    /\ pc[h] = "store"
    /\ cam' = [cam EXCEPT ![h].last_encoded_frame =
                 IF @ = None THEN hist[h].store_count + 1 ELSE @]
    /\ hist' = [hist EXCEPT ![h].store_count = @ + 1,
                            ![h].late_stores = IF hist[h].stopped THEN @ + 1 ELSE @]
    /\ pc' = [pc EXCEPT ![h] = "loop"]
    /\ UNCHANGED first_run

\* with self.lock: self.last_encoded_frame = jpeg.tobytes()
\* A frame is modelled by its number in store order.
Store(h) ==
    /\ pc[h] = "store"
    /\ cam' = [cam EXCEPT ![h].last_encoded_frame = hist[h].store_count + 1]
    /\ hist' = [hist EXCEPT ![h].store_count = @ + 1,
                            ![h].late_stores = IF hist[h].stopped THEN @ + 1 ELSE @]
    /\ pc' = [pc EXCEPT ![h] = "loop"]
    /\ UNCHANGED first_run

\* One step of the worker thread Camera._update of Camera h.
Worker(h) ==
    \/ LoopCheck(h)
    \/ CheckVideo(h)
    \/ Cooldown(h)
    \/ CountAttempt(h)
    \/ Open(h)
    \/ Grab(h)
    \/ Retrieve(h)
    \/ Store(h)

NoCall == [r |-> "none"]

NoRet == [op |-> "none"]

\* with self.lock: return self.last_encoded_frame
get_frame(r, h) ==
    /\ pc[h] # "unborn"
    /\ got' = [r |-> r, h |-> h, frame |-> cam[h].last_encoded_frame]
    /\ seen' = [seen EXCEPT ![r][h] = cam[h].last_encoded_frame]
    /\ UNCHANGED <<cam, pc, first_run, hist>>

\* --------------------------------------------------------- CameraManager
\* CameraManager.add_camera: stop the Camera the id maps to, if any, then
\* construct a new one (which starts its thread) and map the id to it.
add_camera(id, kind) ==
    /\ nexth < MaxHandles
    /\ LET old == get_camera(cameras, id)
           nh == nexth + 1
       IN  /\ cam' = [(IF old # None THEN [cam EXCEPT ![old] = Stop(@)] ELSE cam)
                        EXCEPT ![nh] = NewCamera(kind)]
           /\ hist' = [(IF old # None THEN [hist EXCEPT ![old].stopped = TRUE] ELSE hist)
                        EXCEPT ![nh] = NewHist(id)]
           /\ pc' = [pc EXCEPT ![nh] = "loop"]
           /\ first_run' = [first_run EXCEPT ![nh] = TRUE]
           /\ cameras' = DictSet(cameras, id, nh)
           /\ nexth' = nh
    /\ ref' = ref \cup {id}

\* A call of CameraManager.add_camera: it returns the new Camera.
add_camera_call(id, kind) ==
    /\ add_camera(id, kind)
    /\ ret' = [op |-> "add", id |-> id, val |-> nexth + 1]

\* CameraManager.remove_camera: stop and unmap; False if the id is not mapped.
remove_camera(id) ==
    /\ IF id \in Ids(cameras)
       THEN LET old == get_camera(cameras, id)
            IN  /\ cam' = [cam EXCEPT ![old] = Stop(@)]
                /\ hist' = [hist EXCEPT ![old].stopped = TRUE]
                /\ cameras' = DictDel(cameras, id)
       ELSE UNCHANGED <<cam, hist, cameras>>
    /\ ref' = ref \ {id}
    /\ UNCHANGED <<pc, first_run, nexth>>

\* A call of CameraManager.remove_camera: True if the id was mapped.
remove_camera_call(id) ==
    /\ remove_camera(id)
    /\ ret' = [op |-> "remove", id |-> id, val |-> id \in Ids(cameras), had |-> id \in ref]

\* A call of CameraManager.get_camera.
get_camera_call(id) ==
    /\ ret' = [op |-> "get", id |-> id, val |-> get_camera(cameras, id)]
    /\ UNCHANGED <<cam, hist, cameras, pc, first_run, nexth, ref>>

\* GET /cameras: [{"id": c_id, ...} for c_id, cam in camera_manager.cameras.items()]
list_cameras ==
    /\ ret' = [op |-> "list", val |-> [i \in 1..Len(cameras) |-> cameras[i].id]]
    /\ UNCHANGED <<cam, hist, cameras, pc, first_run, nexth, ref>>

\* ---------------------------------------------------------- configuration
\* A dict is a function on its keys; a string the code takes apart (a time
\* of day) is the sequence of its characters.
\* d.get(key, default)
Get(d, key, default) == IF key \in DOMAIN d THEN d[key] ELSE default

\* d[key] = val
Put(d, key, val) == [k \in DOMAIN d \cup {key} |-> IF k = key THEN val ELSE d[k]]

\* del d[key]
Del(d, key) == [k \in DOMAIN d \ {key} |-> d[k]]

\* {}
EmptyDict == [k \in {} |-> 0]

\* The keys of the configuration whose values are dicts (isinstance(value, dict)):
\* the sections, and under "cameras" the camera ids.
DictKeys == {"cameras", "patrol", "person_finder", "doorbell_iq"} \cup CamIds

RECURSIVE deep_merge(_, _)
\* config.deep_merge: a dict is merged into a dict key by key, any other
\* value (a scalar, a list) replaces what the target holds.
deep_merge(target, source) ==
    [key \in DOMAIN target \cup DOMAIN source |->
        IF key \notin DOMAIN source THEN target[key]
        ELSE IF key \in DictKeys /\ key \in DOMAIN target
             THEN deep_merge(target[key], source[key])
             ELSE source[key]]

\* "08:00"
T0800 == <<"0", "8", ":", "0", "0">>

\* get_default_config(): the sections the scheduler reads
DefaultConfig ==
    [cameras |-> EmptyDict,
     patrol |-> [schedule_enabled |-> FALSE, schedule_interval_hrs |-> 6],
     person_finder |-> [names |-> <<>>, schedule_enabled |-> FALSE,
                        schedule_interval_hrs |-> 4],
     doorbell_iq |-> [camera_id |-> ""],
     utility_meters |-> <<>>]

\* ------------------------------------------------------- parsing a time
Digits == <<"0", "1", "2", "3", "4", "5", "6", "7", "8", "9">>

IsDigit(c) == \E i \in 1..10 : Digits[i] = c

DigitVal(c) == (CHOOSE i \in 1..10 : Digits[i] = c) - 1

RECURSIVE Decimal(_)
Decimal(s) ==
    IF Len(s) = 0 THEN 0
    ELSE 10 * Decimal(SubSeq(s, 1, Len(s) - 1)) + DigitVal(s[Len(s)])

\* int(s) for a string of digits, colons and letters: ValueError (here -1)
\* unless s is a non-empty string of digits.
int(s) ==
    IF Len(s) = 0 \/ \E i \in 1..Len(s) : ~IsDigit(s[i]) THEN -1 ELSE Decimal(s)

RECURSIVE split(_)
\* time_str.split(':')
split(s) ==
    IF \A i \in 1..Len(s) : s[i] # ":" THEN <<s>>
    ELSE LET i == CHOOSE k \in 1..Len(s) : s[k] = ":" /\ \A j \in 1..(k - 1) : s[j] # ":"
         IN  <<SubSeq(s, 1, i - 1)>> \o split(SubSeq(s, i + 1, Len(s)))

RECURSIVE join(_)
\* ",".join(days)
join(days) ==
    IF Len(days) = 0 THEN ""
    ELSE IF Len(days) = 1 THEN days[1]
    ELSE days[1] \o "," \o join(Tail(days))

\* ------------------------------------------------------------- triggers
\* The clock counts minutes; a day has 1440 of them, the week starts on Monday.
Day == 24 * 60

DayNames == <<"mon", "tue", "wed", "thu", "fri", "sat", "sun">>

\* The lists of days the requests put in schedule_days.
DayLists == {<<"mon", "fri">>}

\* The days of the week (0 is Monday) a cron trigger's day_of_week names.
DaysOfWeek(day_of_week) ==
    IF day_of_week = "*" THEN 0..6
    ELSE {d \in 0..6 : \E days \in DayLists :
              /\ join(days) = day_of_week
              /\ \E i \in 1..Len(days) : days[i] = DayNames[d + 1]}

\* The length of an interval trigger, in minutes.
IntervalLength(trigger) == trigger.hours * 60 + trigger.minutes

\* trigger.get_next_fire_time: the first time after t the trigger fires at.
\* An interval trigger fires one interval after the job was added or last
\* fired (an interval of length zero is taken for one of a second, which a
\* clock of minutes rounds up to the next minute); a cron trigger at the
\* next minute of its hour, minute and days.
NextFire(trigger, t) ==
    IF trigger.kind = "interval"
    THEN t + (IF IntervalLength(trigger) = 0 THEN 1 ELSE IntervalLength(trigger))
    ELSE LET at(k) == (t \div Day) * Day + trigger.hour * 60 + trigger.minute + k * Day
             ok(k) == at(k) > t /\ (at(k) \div Day) % 7 \in DaysOfWeek(trigger.day_of_week)
             k == CHOOSE n \in 0..8 : ok(n) /\ \A m \in 0..(n - 1) : ~ok(m)
         IN  at(k)

\* ----------------------------------------------------------- the job table
\* scheduler.get_job(job_id), as the code tests it: is there such a job
get_job(js, job_id) == \E j \in js : j.id = job_id

\* Mutant of remove_job: the job stays in the table.
RemoveJobKeeps(js, job_id) == js

\* scheduler.remove_job(job_id)
remove_job(js, job_id) == {j \in js : j.id # job_id}

\* Mutant of add_job: the job store takes a second job of an id it holds.
AddJobTwice(js, func, trigger, args, job_id) ==
    js \cup {[id |-> job_id, func |-> func, trigger |-> trigger, args |-> args,
              next_run_time |-> NextFire(trigger, now)]}

\* scheduler.add_job(func, ..., args=args, id=job_id): the job store refuses
\* an id it holds already (the error is caught and logged by the caller);
\* the job is first due at its trigger's next time after now.
add_job(js, func, trigger, args, job_id) ==
    IF get_job(js, job_id) THEN js
    ELSE js \cup {[id |-> job_id, func |-> func, trigger |-> trigger, args |-> args,
                   next_run_time |-> NextFire(trigger, now)]}

\* No job is added: the schedule is rejected with a log line.
NoTrigger == [kind |-> "none"]

\* The 'cron' jobs of the daily and the weekly schedule: the time is split
\* at ':' and its first two parts are read as hour and minute; a time of
\* fewer parts, a part that is no number and an hour or minute out of range
\* (which the cron trigger refuses with a ValueError) are logged.
CronTrigger(time_str, day_of_week) ==
    LET parts == split(time_str)
    IN  IF Len(parts) >= 2 /\ int(parts[1]) \in 0..23 /\ int(parts[2]) \in 0..59
        THEN [kind |-> "cron", day_of_week |-> day_of_week,
              hour |-> int(parts[1]), minute |-> int(parts[2])]
        ELSE NoTrigger

\* The 'interval' job of the interval schedule; 0 h 0 min falls back to 1 h.
IntervalTrigger(hrs, mins) ==
    [kind |-> "interval",
     hours |-> IF hrs = 0 /\ mins = 0 THEN 1 ELSE hrs,
     minutes |-> mins]

\* The trigger _add_schedule_job installs for a schedule-enabled item.
ScheduleTrigger(config_item) ==
    LET sched_type == Get(config_item, "schedule_type", "interval")
        time_str == Get(config_item, "schedule_time", T0800)
        days == Get(config_item, "schedule_days", <<>>)
    IN  CASE sched_type = "daily" -> CronTrigger(time_str, "*")
          [] sched_type = "weekly" ->
                IF days = <<>> THEN NoTrigger ELSE CronTrigger(time_str, join(days))
          [] OTHER -> IntervalTrigger(Get(config_item, "schedule_interval_hrs", 0),
                                      Get(config_item, "schedule_interval_mins", 0))

\* Mutant of add_schedule_job: a job that exists is removed and not added
\* again.
AddScheduleJobToggle(js, func, job_id, config_item, args) ==
    IF ~Get(config_item, "schedule_enabled", FALSE) \/ get_job(js, job_id)
    THEN remove_job(js, job_id)
    ELSE LET trigger == ScheduleTrigger(config_item)
         IN  IF trigger.kind = "none"
             THEN js
             ELSE add_job(js, func, trigger, args, job_id)

\* sync_schedules._add_schedule_job: the job table it leaves.
add_schedule_job(js, func, job_id, config_item, args) ==
    IF ~Get(config_item, "schedule_enabled", FALSE)
    THEN remove_job(js, job_id)
    ELSE LET trigger == ScheduleTrigger(config_item)
         IN  IF trigger.kind = "none"
             THEN remove_job(js, job_id)
             ELSE add_job(remove_job(js, job_id), func, trigger, args, job_id)

\* ---------------------------------------------------------- sync_schedules
\* 1. Camera schedules: one pass of the loop over config["cameras"].
SyncCamera(js, cam_id, cam_config) ==
    IF Get(cam_config, "enabled", TRUE)
    THEN add_schedule_job(js, "perform_analysis", "analysis_" \o cam_id,
                          cam_config, <<cam_id>>)
    ELSE remove_job(js, "analysis_" \o cam_id)

RECURSIVE SyncCameras(_, _, _)
\* The loop over the cameras the configuration holds, ids being those left.
\* Every pass touches the job of its own camera only, so that the order of
\* the dict does not matter.
SyncCameras(js, cams, ids) ==
    IF ids = {} THEN js
    ELSE LET cam_id == CHOOSE i \in ids : TRUE
         IN  SyncCameras(SyncCamera(js, cam_id, cams[cam_id]), cams, ids \ {cam_id})

\* patrol_config / finder_config before _add_schedule_job: an item without
\* schedule_type and with a non-zero schedule_interval_hrs is given the
\* type "interval", in the configuration itself.
WithIntervalType(item) ==
    IF "schedule_type" \notin DOMAIN item /\ Get(item, "schedule_interval_hrs", 0) # 0
    THEN Put(item, "schedule_type", "interval")
    ELSE item

\* 2. Global patrol schedule.
SyncPatrol(js, patrol_config) ==
    add_schedule_job(js, "perform_home_patrol", "patrol_global",
                     WithIntervalType(patrol_config), <<>>)

\* The copy of a meter's configuration that is scheduled: a meter without
\* schedule_type gets one from its old schedule_interval.
MeterCfg(meter) ==
    IF "schedule_type" \in DOMAIN meter THEN meter
    ELSE LET old_interval == Get(meter, "schedule_interval", "")
         IN  CASE old_interval = "hourly" ->
                    Put(Put(meter, "schedule_type", "interval"), "schedule_interval_hrs", 1)
               [] old_interval = "daily" ->
                    Put(Put(meter, "schedule_type", "daily"), "schedule_time", T0800)
               [] OTHER ->
                    Put(Put(meter, "schedule_type", "interval"), "schedule_interval_hrs", 12)

\* 3. Utility meter schedules: one pass of the loop over the meters.
SyncMeter(js, meter) ==
    LET job_id == "meter_" \o meter.id
    IN  IF Get(meter, "camera_id", "") # ""
        THEN add_schedule_job(remove_job(js, job_id), "perform_meter_read", job_id,
                              MeterCfg(meter), <<meter.id>>)
        ELSE remove_job(js, job_id)

RECURSIVE SyncMeters(_, _)
SyncMeters(js, meters) ==
    IF meters = <<>> THEN js
    ELSE SyncMeters(SyncMeter(js, Head(meters)), Tail(meters))

\* The finder is scheduled: it has names and schedule_enabled.
FinderScheduled(finder_config) ==
    Get(finder_config, "names", <<>>) # <<>> /\ Get(finder_config, "schedule_enabled", FALSE)

\* 4. Person finder schedule.
SyncFinder(js, finder_config) ==
    IF FinderScheduled(finder_config)
    THEN add_schedule_job(remove_job(js, "person_finder_scheduled"),
                          "perform_person_finder", "person_finder_scheduled",
                          WithIntervalType(finder_config),
                          <<Get(finder_config, "names", <<>>), Get(finder_config, "prompt", ""),
                            Get(finder_config, "recipients", <<>>)>>)
    ELSE remove_job(js, "person_finder_scheduled")

\* The job table sync_schedules leaves, given the configuration.
SyncedJobs(cfg, js) ==
    LET cams == Get(cfg, "cameras", EmptyDict)
        js1 == SyncCameras(js, cams, DOMAIN cams)
        js2 == SyncPatrol(js1, Get(cfg, "patrol", EmptyDict))
        js3 == SyncMeters(js2, Get(cfg, "utility_meters", <<>>))
    IN  SyncFinder(js3, Get(cfg, "person_finder", EmptyDict))

\* The configuration sync_schedules leaves: patrol_config and finder_config
\* are the dicts of the configuration, and are changed in place.
SyncedConfig(cfg) ==
    LET finder_config == Get(cfg, "person_finder", EmptyDict)
    IN  [cfg EXCEPT !.patrol = WithIntervalType(@),
                    !.person_finder = IF FinderScheduled(finder_config)
                                      THEN WithIntervalType(@) ELSE @]

\* triggers.sync_schedules(), called by a handler on the configuration cfg
sync_schedules(cfg) ==
    /\ jobs' = SyncedJobs(cfg, jobs)
    /\ config' = SyncedConfig(cfg)
    /\ synced' = TRUE

\* ----------------------------------------------------------- the handlers
\* No get_frame call returns in this step.
NoRead == got' = NoCall /\ UNCHANGED <<seen, stream, lock, call>>

\* No registry call is made in this step.
NoRegistry == ret' = NoRet /\ UNCHANGED <<cameras, nexth, ref>>

\* No Camera object changes in this step.
NoCapture == UNCHANGED <<cam, pc, first_run, hist>>

\* No result of a job body.
NoResult == [func |-> "none"]

\* No tick passes and no job body returns in this step.
NoRun == fired' = <<>> /\ result' = NoResult /\ UNCHANGED <<now, pool, req, disk>>

\* The handler leaves with the configuration cfg and without a sync.
Unsynced(cfg) == config' = cfg /\ synced' = FALSE /\ UNCHANGED jobs

\* The sections whose change makes update_settings call sync_schedules.
ScheduleSections == {"cameras", "person_finder", "utility_meters", "patrol", "doorbell_iq"}

\* POST /settings. save_config merges the settings into the configuration
\* and then writes the file; ok tells whether the write succeeded.
update_settings(settings, ok) ==
    /\ LET cfg == deep_merge(config, settings)
       IN  IF ok /\ DOMAIN settings \cap ScheduleSections # {}
           THEN sync_schedules(cfg)
           ELSE Unsynced(cfg)
    /\ NoCapture /\ NoRegistry /\ NoRead /\ NoRun

\* raise HTTPException(status_code=...): the request fails, the registry is
\* as it was.
Refused(op, status_code) ==
    /\ ret' = [op |-> op, status_code |-> status_code]
    /\ UNCHANGED <<cameras, nexth, ref>>

\* POST /cameras: the entry of the camera is replaced, and when the
\* configuration is saved the camera is (re)added and the schedules synced.
update_camera(cam_data, ok) ==
    /\ LET cam_id == cam_data.id
           config_entry ==
               [source |-> Get(cam_data, "source", "idle"),
                schedule_enabled |-> Get(cam_data, "schedule_enabled", FALSE),
                schedule_interval_hrs |-> Get(cam_data, "schedule_interval_hrs", 1),
                schedule_interval_mins |-> Get(cam_data, "schedule_interval_mins", 0),
                enabled |-> TRUE]
           cfg == [config EXCEPT !.cameras = Put(@, cam_id, config_entry)]
       IN  IF ok
           THEN add_camera(cam_id, config_entry.source) /\ sync_schedules(cfg) /\ ret' = NoRet
           ELSE Unsynced(cfg) /\ NoCapture /\ Refused("update_camera", 500)
    /\ NoRead /\ NoRun

\* DELETE /cameras/{camera_id}: the entry is deleted, and when the
\* configuration is saved the camera is removed and the schedules synced;
\* 404 for an id the configuration does not hold, and after a failed save.
delete_camera(camera_id, ok) ==
    /\ IF camera_id \in DOMAIN config.cameras
       THEN LET cfg == [config EXCEPT !.cameras = Del(@, camera_id)]
            IN  IF ok
                THEN remove_camera(camera_id) /\ sync_schedules(cfg) /\ ret' = NoRet
                ELSE Unsynced(cfg) /\ NoCapture /\ Refused("delete_camera", 404)
       ELSE Unsynced(config) /\ NoCapture /\ Refused("delete_camera", 404)
    /\ NoRead /\ NoRun

\* POST /schedule/{camera_id}: the camera's job is replaced by an interval
\* job of interval_minutes minutes.
schedule_analysis(camera_id, interval_minutes) ==
    /\ LET job_id == "analysis_" \o camera_id
       IN  jobs' = add_job(remove_job(jobs, job_id), "perform_analysis",
                           [kind |-> "interval", hours |-> 0, minutes |-> interval_minutes],
                           <<camera_id>>, job_id)
    /\ synced' = FALSE
    /\ UNCHANGED config
    /\ NoCapture /\ NoRegistry /\ NoRead /\ NoRun

\* ----------------------------------------------------------- the job bodies
\* camera_manager.get_camera(cam_id).get_frame(), None without a camera
FrameOf(cam_id) ==
    LET camera == get_camera(cameras, cam_id)
    IN  IF camera = None THEN None ELSE cam[camera].last_encoded_frame

\* images_data of perform_home_patrol and perform_person_finder: the enabled
\* cameras of the configuration that have a frame.
ImageCameras ==
    {cam_id \in DOMAIN config.cameras :
        Get(config.cameras[cam_id], "enabled", TRUE) /\ FrameOf(cam_id) # None}

\* How a job body begins: the frame it captures, and whether it returns an
\* error right away (no camera, no frame, no meter).
Begin(func, args) ==
    CASE func = "perform_analysis" ->
            [frame |-> FrameOf(args[1]), early |-> FrameOf(args[1]) = None]
      [] func = "perform_meter_read" ->
            \* camera_manager.get_frame does not exist: the AttributeError is
            \* caught and logged for every meter, no frame is captured
            [frame |-> None,
             early |-> ~\E i \in 1..Len(config.utility_meters) :
                            config.utility_meters[i].id = args[1]]
      [] OTHER ->
            [frame |-> IF ImageCameras = {} THEN None
                       ELSE FrameOf(CHOOSE cam_id \in ImageCameras : TRUE),
             early |-> ImageCameras = {}]

\* What can happen to a job body after it has its frame: all goes well, the
\* AI call raises, the analyzer has no API key, the image file cannot be
\* written, the database fails, sending the notification raises, none of
\* the people looked for has a registered face.
Outcomes == {"ok", "ai_error", "ai_disabled", "disk_error", "db_error", "send_error",
             "no_faces"}

\* What a job body has done when it returns.
Result(func, args, by, status, frame, ai, persisted, notified) ==
    [func |-> func, args |-> args, by |-> by, status |-> status, frame |-> frame,
     ai |-> ai, persisted |-> persisted, notified |-> notified]

\* The AI call as the result records it: not made, answered, failed.
AiCall(outcome) ==
    CASE outcome = "ai_disabled" -> "none" [] outcome = "ai_error" -> "error" [] OTHER -> "ok"

\* perform_analysis with a frame: analyze_image returns an "Error: ..." text
\* when the AI call raises, and the body goes on with it; without an API key
\* it returns two values where five are unpacked, which raises; every
\* exception is caught and returned as an error.
perform_analysis(args, by, frame, outcome) ==
    CASE outcome = "ai_disabled" ->
            Result("perform_analysis", args, by, "error", frame, "none", FALSE, FALSE)
      [] outcome = "disk_error" ->
            Result("perform_analysis", args, by, "error", frame, "ok", FALSE, FALSE)
      [] outcome = "send_error" ->
            Result("perform_analysis", args, by, "error", frame, "ok", TRUE, FALSE)
      [] OTHER ->
            Result("perform_analysis", args, by, "success", frame, AiCall(outcome),
                   outcome # "db_error", TRUE)

\* perform_home_patrol with images: the analyzer returns a text in every
\* case, saving the image and the log are guarded, sending is not.
perform_home_patrol(args, by, frame, outcome) ==
    IF outcome = "send_error"
    THEN Result("perform_home_patrol", args, by, "raised", frame, "ok", TRUE, FALSE)
    ELSE Result("perform_home_patrol", args, by, "success", frame, AiCall(outcome),
                outcome # "db_error", TRUE)

\* perform_person_finder
perform_person_finder(args, by, frame, outcome) ==
    CASE outcome = "no_faces" ->
            Result("perform_person_finder", args, by, "error", None, "none", FALSE, FALSE)
      [] outcome = "send_error" ->
            Result("perform_person_finder", args, by, "raised", frame, "ok", TRUE, FALSE)
      [] OTHER ->
            Result("perform_person_finder", args, by, "success", frame, AiCall(outcome),
                   outcome # "db_error", TRUE)

\* perform_meter_read with a meter: the results are empty, the status is success
perform_meter_read(args, by, frame, outcome) ==
    Result("perform_meter_read", args, by, "success", None, "none", FALSE, FALSE)

\* Mutant of Returns: the AI call is made before the frame is looked at.
ReturnsAfterAiCall(func, args, by, begin, outcome) ==
    IF begin.early /\ ~(func = "perform_person_finder" /\ outcome = "no_faces")
    THEN Result(func, args, by, "error", None, AiCall(outcome), FALSE, FALSE)
    ELSE CASE func = "perform_analysis" -> perform_analysis(args, by, begin.frame, outcome)
           [] func = "perform_home_patrol" -> perform_home_patrol(args, by, begin.frame, outcome)
           [] func = "perform_meter_read" -> perform_meter_read(args, by, begin.frame, outcome)
           [] OTHER -> perform_person_finder(args, by, begin.frame, outcome)

\* What the body func returns, begun as begin tells.
Returns(func, args, by, begin, outcome) ==
    IF begin.early /\ ~(func = "perform_person_finder" /\ outcome = "no_faces")
    THEN Result(func, args, by, "error", None, "none", FALSE, FALSE)
    ELSE CASE func = "perform_analysis" -> perform_analysis(args, by, begin.frame, outcome)
           [] func = "perform_home_patrol" -> perform_home_patrol(args, by, begin.frame, outcome)
           [] func = "perform_meter_read" -> perform_meter_read(args, by, begin.frame, outcome)
           [] OTHER -> perform_person_finder(args, by, begin.frame, outcome)

\* --------------------------------------------------------- /data/events
\* Nothing has been written in the current second. Files and rows written
\* in an earlier second are left out: their names differ from every name a
\* later write uses. What is written is recorded only in the runs that
\* follow the directory (followed), to keep the other runs small.
NoDisk(d) == [followed |-> d.followed, sec |-> 0, files |-> {}, events |-> {}]

\* filename = f"{camera_id}_{timestamp.strftime('%Y%m%d_%H%M%S')}.jpg"
filepath(camera_id, sec) == <<camera_id, now, sec>>

\* What perform_analysis, returning r, has written: with open(filepath,
\* "wb") as f: f.write(frame_bytes), which replaces a file of that name, and
\* the Event row with image_path=filepath if the database took it.
Saved(d, r, outcome) ==
    IF ~d.followed \/ r.func # "perform_analysis" \/ r.frame = None
       \/ outcome \in {"ai_disabled", "disk_error"}
    THEN d
    ELSE LET path == filepath(r.args[1], d.sec)
         IN  [d EXCEPT
                !.files = {f \in @ : f.path # path} \cup {[path |-> path, frame |-> r.frame]},
                !.events = IF r.persisted
                           THEN @ \cup {[image_path |-> path, frame |-> r.frame]}
                           ELSE @]

\* ----------------------------------------------------------- the executor
\* BackgroundScheduler() is built with the library's defaults: a pool of ten
\* worker threads, at most one running instance per job id.
max_workers == 10
max_instances == 1

\* The order of the ids the job store sorts jobs of one due time by.
JobIdOrder ==
    <<"analysis_c01", "analysis_c02", "analysis_c03", "analysis_c04", "analysis_c05",
      "analysis_c06", "analysis_c07", "analysis_c08", "analysis_c09", "analysis_c1",
      "analysis_c10", "analysis_c11", "analysis_c2", "meter_m1", "patrol_global",
      "person_finder_scheduled">>

IdRank(job_id) == CHOOSE i \in 1..Len(JobIdOrder) : JobIdOrder[i] = job_id

\* The job of js that is due first.
FirstDue(js) ==
    CHOOSE j \in js : \A k \in js :
        \/ j.next_run_time < k.next_run_time
        \/ j.next_run_time = k.next_run_time /\ IdRank(j.id) <= IdRank(k.id)

\* The runs of the pool on a worker, and the runs of one job id submitted
\* and not yet finished.
Running(p) == {i \in 1..Len(p) : p[i].state = "running"}
Instances(p, job_id) == Cardinality({i \in 1..Len(p) : p[i].id = job_id})

\* A run that has not begun.
NoBegin == [frame |-> None, early |-> FALSE]

\* executor.submit_job(job, run_times): the run goes to a free worker at
\* once and waits in the pool's queue otherwise.
Submitted(p, job) ==
    IF Cardinality(Running(p)) < max_workers
    THEN [id |-> job.id, func |-> job.func, args |-> job.args, trigger |-> job.trigger,
          run_time |-> job.next_run_time, state |-> "running",
          begin |-> Begin(job.func, job.args)]
    ELSE [id |-> job.id, func |-> job.func, args |-> job.args, trigger |-> job.trigger,
          run_time |-> job.next_run_time, state |-> "queued", begin |-> NoBegin]

\* The run of a job that has max_instances runs unfinished: it is skipped
\* with a warning.
Skipped(job) ==
    [id |-> job.id, func |-> job.func, args |-> job.args, trigger |-> job.trigger,
     run_time |-> job.next_run_time, state |-> "skipped", begin |-> NoBegin]

\* scheduler._process_jobs(now): every due job is submitted, unless it has
\* max_instances runs unfinished, in which case this run is skipped; in
\* both cases the job moves to its trigger's next time. It returns the
\* job table, the pool, and what became of every due run.
RECURSIVE process_jobs(_, _, _, _)
process_jobs(js, p, f, t) ==
    LET due == {j \in js : j.next_run_time <= t}
    IN  IF due = {} THEN [jobs |-> js, pool |-> p, fired |-> f]
        ELSE LET job == FirstDue(due)
                 next == [job EXCEPT !.next_run_time = NextFire(job.trigger, t)]
                 js2 == (js \ {job}) \cup {next}
             IN  IF Instances(p, job.id) >= max_instances
                 THEN process_jobs(js2, p, Append(f, Skipped(job)), t)
                 ELSE process_jobs(js2, Append(p, Submitted(p, job)),
                                   Append(f, Submitted(p, job)), t)

\* p without its i-th run
Without(p, i) == [k \in 1..(Len(p) - 1) |-> IF k < i THEN p[k] ELSE p[k + 1]]

\* A worker that has finished a run takes the next waiting one: run_job
\* drops it as missed if its run time is more than misfire_grace_time (one
\* second) ago, and runs it otherwise.
RECURSIVE Pickup(_, _)
Pickup(p, late) ==
    LET waiting == {i \in 1..Len(p) : p[i].state = "queued"}
    IN  IF waiting = {} \/ Cardinality(Running(p)) >= max_workers THEN p
        ELSE LET i == CHOOSE k \in waiting : \A m \in waiting : k <= m
             IN  IF late \/ now > p[i].run_time
                 THEN Pickup(Without(p, i), late)
                 ELSE [p EXCEPT ![i] = [@ EXCEPT !.state = "running",
                                          !.begin = Begin(p[i].func, p[i].args)]]

\* One minute passes and the scheduler thread processes the due jobs.
Tick ==
    /\ now' = now + 1
    /\ LET r == process_jobs(jobs, pool, <<>>, now + 1)
       IN  jobs' = r.jobs /\ pool' = r.pool /\ fired' = r.fired
    /\ result' = NoResult
    /\ disk' = NoDisk(disk)
    /\ UNCHANGED <<config, synced, req>>
    /\ NoRegistry /\ NoCapture /\ NoRead

\* Mutant of BodyReturn: a job whose body fails is taken off the table.
BodyReturnDeregisters(i, outcome, late) ==
    /\ i \in Running(pool)
    /\ result' = Returns(pool[i].func, pool[i].args, "scheduler", pool[i].begin, outcome)
    /\ disk' = Saved(disk, result', outcome)
    /\ pool' = Pickup(Without(pool, i), late)
    /\ fired' = <<>>
    /\ jobs' = IF result'.status = "success" THEN jobs ELSE remove_job(jobs, pool[i].id)
    /\ UNCHANGED <<now, config, synced, req>>
    /\ NoRegistry /\ NoCapture /\ NoRead

\* The i-th run of the pool, on a worker, returns or raises: run_job logs
\* what happened, the run is finished, the job stays in the table.
BodyReturn(i, outcome, late) ==
    /\ i \in Running(pool)
    /\ result' = Returns(pool[i].func, pool[i].args, "scheduler", pool[i].begin, outcome)
    /\ disk' = Saved(disk, result', outcome)
    /\ pool' = Pickup(Without(pool, i), late)
    /\ fired' = <<>>
    /\ UNCHANGED <<now, config, jobs, synced, req>>
    /\ NoRegistry /\ NoCapture /\ NoRead

\* Mutant of trigger_analysis_manual: the trigger also schedules the camera.
TriggerManualSchedules(camera_id, outcome) ==
    /\ result' = Returns("perform_analysis", <<camera_id>>, "manual",
                         Begin("perform_analysis", <<camera_id>>), outcome)
    /\ disk' = Saved(disk, result', outcome)
    /\ fired' = <<>>
    /\ jobs' = add_job(jobs, "perform_analysis", [kind |-> "interval", hours |-> 1, minutes |-> 0],
                       <<camera_id>>, "analysis_" \o camera_id)
    /\ UNCHANGED <<now, pool, config, synced, req>>
    /\ NoRegistry /\ NoCapture /\ NoRead

\* trigger_analysis_manual(camera_id): the body runs in the caller's thread
trigger_analysis_manual(camera_id, outcome) ==
    /\ result' = Returns("perform_analysis", <<camera_id>>, "manual",
                         Begin("perform_analysis", <<camera_id>>), outcome)
    /\ disk' = Saved(disk, result', outcome)
    /\ fired' = <<>>
    /\ UNCHANGED <<now, pool, config, jobs, synced, req>>
    /\ NoRegistry /\ NoCapture /\ NoRead

\* ------------------------------------------------------- specifications
\* No handler touches the configuration or the job table in this step.
NoSchedule == synced' = FALSE /\ UNCHANGED <<config, jobs>> /\ NoRun

WorkerStep(h) == Worker(h) /\ NoRead /\ NoRegistry /\ NoSchedule

\* The scheduler starts on a Monday at 07:58, with nothing submitted.
Clock0 == 7 * 60 + 58

InitRun ==
    /\ now = Clock0 /\ pool = <<>> /\ fired = <<>> /\ result = NoResult
    /\ req = [t \in {"t1", "t2"} |-> [op |-> "none", passes |-> <<>>, pc |-> "get"]]
    /\ stream = [state |-> "none", id |-> "", h |-> None, empty_count |-> 0]
    /\ lock = [h \in H |-> [holder |-> "free", calls |-> {}]]
    /\ disk = [followed |-> FALSE, sec |-> 0, files |-> {}, events |-> {}]
    /\ call = [t \in {"t1", "t2"} |->
                [op |-> "none", id |-> "", pc |-> "in", h |-> None, out |-> "none"]]

\* No schedule has been synced: the default configuration, no job.
InitSchedule == InitRun /\ config = DefaultConfig /\ jobs = {} /\ synced = FALSE

\* One Camera has just been constructed on a source of some kind, as by
\* add_camera("c1", ...): its thread is started, nothing is connected yet.
InitCam ==
    /\ \E k \in SourceKinds : cam = [h \in H |-> IF h = 1 THEN NewCamera(k) ELSE NoCamera]
    /\ pc = [h \in H |-> IF h = 1 THEN "loop" ELSE "unborn"]
    /\ first_run = [h \in H |-> TRUE]
    /\ hist = [h \in H |-> NewHist("c1")]
    /\ seen = [r \in Readers |-> [h \in H |-> -1]]
    /\ got = NoCall
    /\ cameras = <<[id |-> "c1", h |-> 1]>>
    /\ nexth = 1
    /\ ret = NoRet
    /\ ref = {"c1"}
    /\ InitSchedule

NextCam ==
    \/ \E h \in H : WorkerStep(h)
    \/ \E h \in H : stop(h) /\ NoRead /\ NoRegistry /\ NoSchedule
    \/ \E r \in Readers, h \in H : get_frame(r, h) /\ NoRegistry /\ NoSchedule /\ UNCHANGED <<stream, lock, call>>

\* One Camera, its worker, callers of stop() and readers.
SpecCam == InitCam /\ [][NextCam]_vars

\* The worker is a thread of its own: it keeps being scheduled.
FairSpecCam == SpecCam /\ \A h \in H : WF_vars(WorkerStep(h))

\* CameraManager.__init__: an empty registry.
InitReg ==
    /\ cam = [h \in H |-> NoCamera]
    /\ pc = [h \in H |-> "unborn"]
    /\ first_run = [h \in H |-> TRUE]
    /\ hist = [h \in H |-> NewHist("c1")]
    /\ seen = [r \in Readers |-> [h \in H |-> -1]]
    /\ got = NoCall
    /\ cameras = <<>>
    /\ nexth = 0
    /\ ret = NoRet
    /\ ref = {}
    /\ InitSchedule

\* The sources the registry's cameras are given.
RegSourceKinds == {"idle"}

NextReg ==
    \/ \E h \in H : WorkerStep(h)
    \/ \E id \in CamIds, k \in RegSourceKinds : add_camera_call(id, k) /\ NoRead /\ NoSchedule
    \/ \E id \in CamIds : remove_camera_call(id) /\ NoRead /\ NoSchedule
    \/ \E id \in CamIds : get_camera_call(id) /\ NoRead /\ NoSchedule
    \/ list_cameras /\ NoRead /\ NoSchedule

\* The registry called from one thread at a time, the workers running.
SpecReg == InitReg /\ [][NextReg]_vars

\* ------------------------------------------------- the scheduling requests
\* The camera and the meter the requests are about.
SchedCamIds == {"c1"}

MeterIds == {"m1"}

\* Camera entries sent to POST /settings: a disabled camera with a schedule,
\* a daily schedule, a daily schedule with a time that is none, a weekly
\* schedule without days and with days, an interval schedule of 0 h 0 min.
CameraEntry(enabled, type, time, days) ==
    [source |-> "idle", enabled |-> enabled, schedule_enabled |-> TRUE, schedule_type |-> type,
     schedule_time |-> time, schedule_days |-> days,
     schedule_interval_hrs |-> 0, schedule_interval_mins |-> 0]

CameraSettings ==
    { CameraEntry(FALSE, "interval", T0800, <<>>),
      CameraEntry(TRUE, "daily", T0800, <<>>),
      CameraEntry(TRUE, "daily", <<"8", "h">>, <<>>),
      CameraEntry(TRUE, "weekly", T0800, <<>>),
      CameraEntry(TRUE, "weekly", T0800, <<"mon", "fri">>),
      CameraEntry(TRUE, "interval", T0800, <<>>) }

\* Meters sent to POST /settings: one read hourly off camera c1, one
\* without a camera.
Meter(id, camera_id, old_interval) ==
    [id |-> id, name |-> id, camera_id |-> camera_id, schedule_enabled |-> TRUE,
     schedule_interval |-> old_interval]

MeterLists ==
    {<<>>} \cup {<<Meter(m, c, "hourly")>> : m \in MeterIds, c \in {"c1", ""}}

\* The bodies of POST /settings: one section each.
SettingsBodies ==
    {[cameras |-> [c \in {id} |-> e]] : id \in SchedCamIds, e \in CameraSettings}
    \cup {[patrol |-> [schedule_enabled |-> b]] : b \in BOOLEAN}
    \cup {[person_finder |-> [names |-> ns, schedule_enabled |-> b]] :
              ns \in {<<"alice">>}, b \in BOOLEAN}
    \cup {[utility_meters |-> ml] : ml \in MeterLists}
    \cup {[doorbell_iq |-> [camera_id |-> ""]]}

\* The bodies of POST /cameras.
CamData == {[id |-> id, schedule_enabled |-> b] : id \in SchedCamIds, b \in BOOLEAN}

\* The interval_minutes of POST /schedule/{camera_id}.
ScheduleMinutes == {1}

\* The application has started on the default configuration: the registry
\* is empty and start_scheduler has synced the schedules once.
InitSched ==
    /\ cam = [h \in H |-> NoCamera]
    /\ pc = [h \in H |-> "unborn"]
    /\ first_run = [h \in H |-> TRUE]
    /\ hist = [h \in H |-> NewHist("c1")]
    /\ seen = [r \in Readers |-> [h \in H |-> -1]]
    /\ got = NoCall
    /\ cameras = <<>>
    /\ nexth = 0
    /\ ret = NoRet
    /\ ref = {}
    /\ InitRun
    /\ config = SyncedConfig(DefaultConfig)
    /\ jobs = SyncedJobs(DefaultConfig, {})
    /\ synced = TRUE

\* The interval_minutes of POST /schedule/{camera_id}, which takes any int:
\* zero among them.
IntervalMinutes == {0, 1}

NextSched ==
    \/ \E settings \in SettingsBodies, ok \in BOOLEAN : update_settings(settings, ok)
    \/ \E cam_data \in CamData, ok \in BOOLEAN : update_camera(cam_data, ok)
    \/ \E id \in SchedCamIds, ok \in BOOLEAN : delete_camera(id, ok)
    \/ \E id \in SchedCamIds, m \in IntervalMinutes : schedule_analysis(id, m)

\* The configuration handlers and the job table, one request at a time.
SpecSched == InitSched /\ [][NextSched]_vars

\* ------------------------------------------------------ the running jobs
\* The schedules of camera c1: every minute, daily at 08:00, none.
TickEntry(scheduled, type, mins) ==
    [source |-> "flaky", enabled |-> TRUE, schedule_enabled |-> scheduled,
     schedule_type |-> type, schedule_time |-> T0800, schedule_days |-> <<>>,
     schedule_interval_hrs |-> 0, schedule_interval_mins |-> mins]

TickEntries ==
    { TickEntry(TRUE, "interval", 1), TickEntry(TRUE, "daily", 0),
      TickEntry(FALSE, "interval", 1) }

\* A daily schedule at 08:00 of the patrol, the finder or a meter.
Daily0800 == [schedule_enabled |-> TRUE, schedule_type |-> "daily", schedule_time |-> T0800]

\* The other subjects of the configuration: none scheduled, or the patrol,
\* the finder and the meter m1 of camera c1 each scheduled daily at 08:00.
TickSubjects ==
    { [patrol |-> [schedule_enabled |-> FALSE]],
      [patrol |-> Daily0800,
       person_finder |-> [names |-> <<"alice">>, schedule_enabled |-> TRUE,
                          schedule_type |-> "daily", schedule_time |-> T0800],
       utility_meters |-> <<[id |-> "m1", name |-> "m1", camera_id |-> "c1",
                             schedule_enabled |-> TRUE, schedule_interval |-> "daily"]>>] }

\* The bodies of POST /settings and POST /cameras while the jobs run.
TickSettings == {[cameras |-> [c \in {"c1"} |-> e]] : e \in TickEntries}

TickCamData ==
    {[id |-> "c1", source |-> "flaky", schedule_enabled |-> TRUE,
      schedule_interval_hrs |-> 0, schedule_interval_mins |-> 1]}

\* The Camera of c1 after its worker has opened the source and stored one
\* frame.
StreamingCamera == [NewCamera("flaky") EXCEPT !.video = "open", !.last_encoded_frame = 1]

\* The application has started on a configuration with camera c1:
\* start_scheduler has synced the schedules, the camera streams.
InitTick ==
    /\ cam = [h \in H |-> IF h = 1 THEN StreamingCamera ELSE NoCamera]
    /\ pc = [h \in H |-> IF h = 1 THEN "loop" ELSE "unborn"]
    /\ first_run = [h \in H |-> h # 1]
    /\ hist = [h \in H |-> IF h = 1
                           THEN [NewHist("c1") EXCEPT !.opened_ok = TRUE, !.store_count = 1]
                           ELSE NewHist("c1")]
    /\ seen = [r \in Readers |-> [h \in H |-> -1]]
    /\ got = NoCall
    /\ cameras = <<[id |-> "c1", h |-> 1]>>
    /\ nexth = 1
    /\ ret = NoRet
    /\ ref = {"c1"}
    /\ InitRun
    /\ \E e \in TickEntries, s \in TickSubjects :
          LET cfg == deep_merge([DefaultConfig EXCEPT !.cameras = [c \in {"c1"} |-> e]], s)
          IN  config = SyncedConfig(cfg) /\ jobs = SyncedJobs(cfg, {})
    /\ synced = TRUE

NextTick ==
    \/ now < Clock0 + MaxTicks /\ Tick
    \/ \E i \in 1..Len(pool), outcome \in Outcomes, late \in BOOLEAN : BodyReturn(i, outcome, late)
    \/ \E id \in CamIds, outcome \in Outcomes : trigger_analysis_manual(id, outcome)
    \/ \E settings \in TickSettings : update_settings(settings, TRUE)
    \/ \E cam_data \in TickCamData : update_camera(cam_data, TRUE)
    \/ \E m \in ScheduleMinutes : schedule_analysis("c1", m)

\* The scheduler thread, its workers, and requests served one at a time.
SpecTick == InitTick /\ [][NextTick]_vars

\* --------------------------------------------- syncs between two firings
\* Camera c1 is analysed every two minutes.
ResyncEntry == TickEntry(TRUE, "interval", 2)

\* Bodies of POST /settings that change nothing of the schedule of c1: the
\* cameras section as it is, and the patrol switched off.
ResyncSettings ==
    { [cameras |-> [c \in {"c1"} |-> ResyncEntry]],
      [patrol |-> [schedule_enabled |-> FALSE]] }

\* The application has started with camera c1 scheduled every two minutes,
\* and the other subjects scheduled or not.
InitResync ==
    /\ cam = [h \in H |-> IF h = 1 THEN StreamingCamera ELSE NoCamera]
    /\ pc = [h \in H |-> IF h = 1 THEN "loop" ELSE "unborn"]
    /\ first_run = [h \in H |-> h # 1]
    /\ hist = [h \in H |-> IF h = 1
                           THEN [NewHist("c1") EXCEPT !.opened_ok = TRUE, !.store_count = 1]
                           ELSE NewHist("c1")]
    /\ seen = [r \in Readers |-> [h \in H |-> -1]]
    /\ got = NoCall
    /\ cameras = <<[id |-> "c1", h |-> 1]>>
    /\ nexth = 1
    /\ ret = NoRet
    /\ ref = {"c1"}
    /\ InitRun
    /\ \E s \in TickSubjects :
          LET cfg == deep_merge([DefaultConfig EXCEPT
                                    !.cameras = [c \in {"c1"} |-> ResyncEntry]], s)
          IN  config = SyncedConfig(cfg) /\ jobs = SyncedJobs(cfg, {})
    /\ synced = TRUE

NextResync ==
    \/ now < Clock0 + MaxTicks /\ Tick
    \/ \E i \in 1..Len(pool), outcome \in Outcomes, late \in BOOLEAN : BodyReturn(i, outcome, late)
    \/ \E id \in CamIds, outcome \in Outcomes : trigger_analysis_manual(id, outcome)
    \/ \E settings \in ResyncSettings : update_settings(settings, TRUE)

\* The scheduler thread, its workers, manual triggers, and settings
\* requests that change the schedule of no camera.
SpecResync == InitResync /\ [][NextResync]_vars

\* ------------------------------------------------- requests step by step
\* One pass over a job id: the job asked for, NoTrigger to remove only.
Pass(func, job_id, trigger, args) ==
    [func |-> func, job_id |-> job_id, trigger |-> trigger, args |-> args]

\* The pass of _add_schedule_job
AddPass(func, job_id, config_item, args) ==
    Pass(func, job_id,
         IF Get(config_item, "schedule_enabled", FALSE) THEN ScheduleTrigger(config_item)
         ELSE NoTrigger,
         args)

\* if scheduler.get_job(job_id): scheduler.remove_job(job_id)
RemovePass(job_id) == Pass("none", job_id, NoTrigger, <<>>)

RECURSIVE CameraPasses(_, _)
CameraPasses(cams, ids) ==
    IF ids = {} THEN <<>>
    ELSE LET cam_id == CHOOSE id \in ids : \A other \in ids : IdRank("analysis_" \o id)
                                                   <= IdRank("analysis_" \o other)
             cam_config == cams[cam_id]
         IN  <<IF Get(cam_config, "enabled", TRUE)
               THEN AddPass("perform_analysis", "analysis_" \o cam_id, cam_config, <<cam_id>>)
               ELSE RemovePass("analysis_" \o cam_id)>>
             \o CameraPasses(cams, ids \ {cam_id})

RECURSIVE MeterPasses(_)
MeterPasses(meters) ==
    IF meters = <<>> THEN <<>>
    ELSE LET meter == Head(meters)
             job_id == "meter_" \o meter.id
         IN  <<RemovePass(job_id)>>
             \o (IF Get(meter, "camera_id", "") # ""
                 THEN <<AddPass("perform_meter_read", job_id, MeterCfg(meter), <<meter.id>>)>>
                 ELSE <<>>)
             \o MeterPasses(Tail(meters))

\* The passes of sync_schedules over the job table, in order: the cameras,
\* the patrol, the meters, the finder.
SyncPasses(cfg) ==
    LET cams == Get(cfg, "cameras", EmptyDict)
        finder_config == Get(cfg, "person_finder", EmptyDict)
    IN  CameraPasses(cams, DOMAIN cams)
        \o <<AddPass("perform_home_patrol", "patrol_global",
                     WithIntervalType(Get(cfg, "patrol", EmptyDict)), <<>>)>>
        \o MeterPasses(Get(cfg, "utility_meters", <<>>))
        \o <<RemovePass("person_finder_scheduled")>>
        \o (IF FinderScheduled(finder_config)
            THEN <<AddPass("perform_person_finder", "person_finder_scheduled",
                           WithIntervalType(finder_config),
                           <<Get(finder_config, "names", <<>>), Get(finder_config, "prompt", ""),
                             Get(finder_config, "recipients", <<>>)>>)>>
            ELSE <<>>)

\* The threads that serve requests, and a thread that serves none.
Threads == {"t1", "t2"}
Idle == [op |-> "none", passes |-> <<>>, pc |-> "get"]

\* No job runs and no tick passes in this step of a request.
NoExecutor == fired' = <<>> /\ result' = NoResult /\ UNCHANGED <<now, pool, disk>>

\* Thread t goes on to its next pass, or returns after its last.
NextPass(t) ==
    req' = [req EXCEPT ![t] = IF Len(@.passes) = 1 THEN Idle
                              ELSE [@ EXCEPT !.passes = Tail(@), !.pc = "get"]]

\* Thread t takes POST /settings with a body that has a schedule section:
\* the settings are merged and saved, and sync_schedules begins.
BeginSync(t, settings) ==
    /\ req[t].op = "none"
    /\ LET cfg == SyncedConfig(deep_merge(config, settings))
       IN  /\ config' = cfg
           /\ req' = [req EXCEPT ![t] = [op |-> "sync", passes |-> SyncPasses(cfg), pc |-> "get"]]
    /\ synced' = FALSE
    /\ UNCHANGED jobs
    /\ NoExecutor /\ NoRegistry /\ NoCapture /\ NoRead

\* Thread t takes POST /schedule/{camera_id}.
BeginSchedule(t, camera_id, interval_minutes) ==
    /\ req[t].op = "none"
    /\ req' = [req EXCEPT ![t] =
                  [op |-> "schedule",
                   passes |-> <<Pass("perform_analysis", "analysis_" \o camera_id,
                                     [kind |-> "interval", hours |-> 0,
                                      minutes |-> interval_minutes], <<camera_id>>)>>,
                   pc |-> "get"]]
    /\ synced' = FALSE
    /\ UNCHANGED <<config, jobs>>
    /\ NoExecutor /\ NoRegistry /\ NoCapture /\ NoRead

\* if scheduler.get_job(job_id):
GetJobStep(t) ==
    /\ req[t].op # "none" /\ req[t].pc = "get"
    /\ LET pass == Head(req[t].passes)
       IN  IF get_job(jobs, pass.job_id) THEN req' = [req EXCEPT ![t].pc = "remove"]
           ELSE IF pass.trigger.kind = "none" THEN NextPass(t)
           ELSE req' = [req EXCEPT ![t].pc = "add"]
    /\ synced' = FALSE
    /\ UNCHANGED <<config, jobs>>
    /\ NoExecutor /\ NoRegistry /\ NoCapture /\ NoRead

\* scheduler.remove_job(job_id): JobLookupError for a job that is gone by
\* now, which ends the request.
RemoveJobStep(t) ==
    /\ req[t].op # "none" /\ req[t].pc = "remove"
    /\ LET pass == Head(req[t].passes)
       IN  IF ~get_job(jobs, pass.job_id) THEN req' = [req EXCEPT ![t] = Idle] /\ UNCHANGED jobs
           ELSE /\ jobs' = remove_job(jobs, pass.job_id)
                /\ IF pass.trigger.kind = "none" THEN NextPass(t)
                   ELSE req' = [req EXCEPT ![t].pc = "add"]
    /\ synced' = FALSE
    /\ UNCHANGED config
    /\ NoExecutor /\ NoRegistry /\ NoCapture /\ NoRead

\* scheduler.add_job(...): ConflictingIdError for an id the table holds by
\* now, logged by sync_schedules, which goes on, and ending schedule_analysis.
AddJobStep(t) ==
    /\ req[t].op # "none" /\ req[t].pc = "add"
    /\ LET pass == Head(req[t].passes)
       IN  /\ jobs' = add_job(jobs, pass.func, pass.trigger, pass.args, pass.job_id)
           /\ IF get_job(jobs, pass.job_id) /\ req[t].op = "schedule"
              THEN req' = [req EXCEPT ![t] = Idle]
              ELSE NextPass(t)
    /\ synced' = FALSE
    /\ UNCHANGED config
    /\ NoExecutor /\ NoRegistry /\ NoCapture /\ NoRead

\* The outcomes of the job bodies while requests are followed step by step.
ConcOutcomes == {"ok"}

\* The bodies of POST /settings followed step by step: camera c1 scheduled
\* daily at 08:00, and every minute.
ConcSettings ==
    {[cameras |-> [c \in {"c1"} |-> e]] :
        e \in {TickEntry(TRUE, "daily", 0), TickEntry(TRUE, "interval", 1)}}

\* The application has started with camera c1 scheduled every minute and
\* nothing else scheduled; no request has been taken.
InitConc ==
    /\ InitTick
    /\ config.cameras["c1"] = TickEntry(TRUE, "interval", 1)
    /\ ~Get(config.patrol, "schedule_enabled", FALSE)

NextConc ==
    \/ now < Clock0 + MaxTicks /\ Tick
    \/ \E i \in 1..Len(pool), outcome \in ConcOutcomes : BodyReturn(i, outcome, FALSE)
    \/ \E t \in Threads, settings \in ConcSettings : BeginSync(t, settings)
    \/ \E t \in Threads, m \in ScheduleMinutes : BeginSchedule(t, "c1", m)
    \/ \E t \in Threads : GetJobStep(t)
    \/ \E t \in Threads : RemoveJobStep(t)
    \/ \E t \in Threads : AddJobStep(t)

\* Two request threads and the scheduler thread, interleaved at every call
\* of the scheduler.
SpecConc == InitConc /\ [][NextConc]_vars

\* ------------------------------------------- more cameras than workers
\* Eleven cameras, one more than the executor has workers.
PoolCams == <<"c01", "c02", "c03", "c04", "c05", "c06", "c07", "c08", "c09", "c10", "c11">>

\* The job bodies return without a failure.
PoolOutcomes == {"ok"}

\* The application has started on a configuration of eleven cameras, each
\* scheduled daily at 08:00: start_scheduler has synced the schedules, and
\* every camera streams.
InitPool ==
    /\ cam = [h \in 1..Len(PoolCams) |-> StreamingCamera]
    /\ pc = [h \in 1..Len(PoolCams) |-> "loop"]
    /\ first_run = [h \in 1..Len(PoolCams) |-> FALSE]
    /\ hist = [h \in 1..Len(PoolCams) |->
                   [NewHist(PoolCams[h]) EXCEPT !.opened_ok = TRUE, !.store_count = 1]]
    /\ seen = [r \in Readers |-> [h \in 1..Len(PoolCams) |-> -1]]
    /\ got = NoCall
    /\ cameras = [h \in 1..Len(PoolCams) |-> [id |-> PoolCams[h], h |-> h]]
    /\ nexth = Len(PoolCams)
    /\ ret = NoRet
    /\ ref = {PoolCams[h] : h \in 1..Len(PoolCams)}
    /\ InitRun
    /\ LET cfg == [DefaultConfig EXCEPT
                      !.cameras = [c \in {PoolCams[h] : h \in 1..Len(PoolCams)}
                                      |-> TickEntry(TRUE, "daily", 0)]]
       IN  config = SyncedConfig(cfg) /\ jobs = SyncedJobs(cfg, {})
    /\ synced = TRUE

NextPool ==
    \/ now < Clock0 + MaxTicks /\ Tick
    \/ \E i \in 1..Len(pool), outcome \in PoolOutcomes, late \in BOOLEAN :
          BodyReturn(i, outcome, late)

\* The scheduler thread and its workers, no request being served.
SpecPool == InitPool /\ [][NextPool]_vars

\* --------------------------------------------------------- live stream
\* generate_frames.max_empty
max_empty == 600

\* No stream has been asked for.
NoStream == [state |-> "none", id |-> "", h |-> None, empty_count |-> 0]

\* The reader the stream's get_frame calls are made as.
StreamReader == "r1"

\* GET /video_feed?camera_id=...: the Camera of the id, or the first of the
\* registry for an id it does not hold, or 404 in an empty registry; the
\* response streams generate_frames(cam), which starts with empty_count 0.
video_feed(camera_id) ==
    /\ stream.state = "none"
    /\ LET found == get_camera(cameras, camera_id)
           camera == IF found # None THEN found
                     ELSE IF Len(cameras) > 0 THEN cameras[1].h ELSE None
       IN  stream' = IF camera = None THEN stream
                     ELSE [state |-> "open", id |-> camera_id, h |-> camera,
                           empty_count |-> 0]
    /\ got' = NoCall
    /\ UNCHANGED <<seen, lock, call>>

\* Mutant of generate_frames: a frame leaves the counter as it is.
GenerateFramesKeepsCounting ==
    /\ stream.state = "open"
    /\ get_frame(StreamReader, stream.h)
    /\ LET frame == cam[stream.h].last_encoded_frame
       IN  stream' = IF frame # None THEN stream
                     ELSE IF stream.empty_count + 1 > max_empty
                     THEN [stream EXCEPT !.empty_count = @ + 1, !.state = "ended"]
                     ELSE [stream EXCEPT !.empty_count = @ + 1]

\* One pass of the loop of generate_frames: a frame is yielded and the
\* counter reset, no frame is counted, and the loop is left when more than
\* max_empty passes in a row had none.
generate_frames ==
    /\ stream.state = "open"
    /\ get_frame(StreamReader, stream.h)
    /\ LET frame == cam[stream.h].last_encoded_frame
       IN  stream' = IF frame # None THEN [stream EXCEPT !.empty_count = 0]
                     ELSE IF stream.empty_count + 1 > max_empty
                     THEN [stream EXCEPT !.empty_count = @ + 1, !.state = "ended"]
                     ELSE [stream EXCEPT !.empty_count = @ + 1]

\* The sources of the camera that is streamed.
StreamSourceKinds == {"idle", "steady"}

\* Camera c1 has just been added, and no stream has been asked for.
InitStream ==
    /\ \E k \in StreamSourceKinds :
          cam = [h \in H |-> IF h = 1 THEN NewCamera(k) ELSE NoCamera]
    /\ pc = [h \in H |-> IF h = 1 THEN "loop" ELSE "unborn"]
    /\ first_run = [h \in H |-> TRUE]
    /\ hist = [h \in H |-> NewHist("c1")]
    /\ seen = [r \in Readers |-> [h \in H |-> -1]]
    /\ got = NoCall
    /\ cameras = <<[id |-> "c1", h |-> 1]>>
    /\ nexth = 1
    /\ ret = NoRet
    /\ ref = {"c1"}
    /\ InitSchedule

NextStream ==
    \/ \E h \in H : WorkerStep(h)
    \/ \E id \in CamIds : video_feed(id) /\ NoCapture /\ NoRegistry /\ NoSchedule
    \/ generate_frames /\ NoRegistry /\ NoSchedule /\ UNCHANGED <<lock, call>>
    \/ \E id \in CamIds : remove_camera_call(id) /\ NoRead /\ NoSchedule

\* One Camera, its worker, one stream of it and the registry.
SpecStream == InitStream /\ [][NextStream]_vars

\* --------------------------------------------------------- the frame lock
\* A step of the worker outside its 'with self.lock' block.
UnlockedWorkerStep(h) ==
    /\ pc[h] # "store"
    /\ WorkerStep(h)

\* with self.lock: (worker) the lock is taken once it is free.
StoreAcquire(h) ==
    /\ pc[h] = "store"
    /\ lock[h].holder = "free"
    /\ lock' = [lock EXCEPT ![h].holder = "worker"]
    /\ got' = NoCall
    /\ UNCHANGED <<seen, stream, call>>
    /\ NoCapture /\ NoRegistry /\ NoSchedule

\* Mutant of StoreAssign: the block is left without releasing the lock.
StoreAssignKeepsLock(h) ==
    /\ lock[h].holder = "worker"
    /\ Store(h)
    /\ got' = NoCall
    /\ UNCHANGED <<seen, stream, lock, call>>
    /\ NoRegistry /\ NoSchedule

\* last_encoded_frame = ...; last_update_time = ...; the block ends and
\* releases the lock.
StoreAssign(h) ==
    /\ lock[h].holder = "worker"
    /\ Store(h)
    /\ lock' = [lock EXCEPT ![h].holder = "free"]
    /\ got' = NoCall
    /\ UNCHANGED <<seen, stream, call>>
    /\ NoRegistry /\ NoSchedule

\* Reader r calls get_frame of Camera h and waits for the lock.
GetFrameCall(r, h) ==
    /\ pc[h] # "unborn"
    /\ \A k \in H : r \notin lock[k].calls
    /\ lock' = [lock EXCEPT ![h].calls = @ \cup {r}]
    /\ got' = NoCall
    /\ UNCHANGED <<seen, stream, call>>
    /\ NoCapture /\ NoRegistry /\ NoSchedule

\* with self.lock: (get_frame) the lock is taken once it is free.
GetFrameAcquire(r, h) ==
    /\ r \in lock[h].calls
    /\ lock[h].holder = "free"
    /\ lock' = [lock EXCEPT ![h].holder = r]
    /\ got' = NoCall
    /\ UNCHANGED <<seen, stream, call>>
    /\ NoCapture /\ NoRegistry /\ NoSchedule

\* return self.last_encoded_frame, which releases the lock.
GetFrameReturn(r, h) ==
    /\ lock[h].holder = r
    /\ get_frame(r, h)
    /\ lock' = [lock EXCEPT ![h] = [holder |-> "free", calls |-> @.calls \ {r}]]
    /\ UNCHANGED <<stream, call>>
    /\ NoRegistry /\ NoSchedule

\* The Camera whose lock is looked at: the one InitStream has constructed.
LockCams == {h \in H : h = 1}

NextLock ==
    \/ \E h \in LockCams : UnlockedWorkerStep(h)
    \/ \E h \in LockCams : StoreAcquire(h)
    \/ \E h \in LockCams : StoreAssign(h)
    \/ \E h \in LockCams : stop(h) /\ NoRead /\ NoRegistry /\ NoSchedule
    \/ \E r \in Readers, h \in LockCams : GetFrameCall(r, h)
    \/ \E r \in Readers, h \in LockCams : GetFrameAcquire(r, h)
    \/ \E r \in Readers, h \in LockCams : GetFrameReturn(r, h)

\* One Camera, its worker, callers of stop() and of get_frame, with the
\* lock taken and released in steps of their own.
SpecLock == InitStream /\ [][NextLock]_vars

\* Every thread keeps being scheduled, and a thread that waits for a lock
\* which is free again and again gets it.
FairSpecLock ==
    /\ SpecLock
    /\ \A h \in LockCams : WF_vars(UnlockedWorkerStep(h))
    /\ \A h \in LockCams : SF_vars(StoreAcquire(h))
    /\ \A h \in LockCams : WF_vars(StoreAssign(h))
    /\ \A r \in Readers, h \in LockCams : SF_vars(GetFrameAcquire(r, h))
    /\ \A r \in Readers, h \in LockCams : WF_vars(GetFrameReturn(r, h))

\* ------------------------------------- CameraManager calls step by step
\* The id the concurrent calls are about.
RaceIds == {"c1"}

\* The calls of add_camera that have not constructed their Camera yet.
PendingAdds == {t \in Threads : call[t].op = "add" /\ call[t].pc \in {"in", "stop", "new"}}

\* What a step of a CameraManager call leaves alone.
CallStep ==
    /\ got' = NoCall
    /\ UNCHANGED <<seen, stream, lock>>
    /\ ret' = NoRet
    /\ UNCHANGED ref
    /\ NoSchedule

\* The call has returned (or raised) out.
Returned(c, out) == [c EXCEPT !.op = "none", !.pc = "in", !.out = out]

\* Thread t enters add_camera(id, ...) or remove_camera(id).
BeginCall(t, op, id) ==
    /\ call[t].op = "none"
    /\ op = "add" => nexth + Cardinality(PendingAdds) < MaxHandles
    /\ call' = [call EXCEPT ![t] = [op |-> op, id |-> id, pc |-> "in", h |-> None, out |-> "none"]]
    /\ NoCapture
    /\ UNCHANGED <<cameras, nexth>>
    /\ CallStep

\* if camera_id in self.cameras: (remove_camera returns False if it is not)
InStep(t) ==
    /\ call[t].op # "none" /\ call[t].pc = "in"
    /\ call' = [call EXCEPT ![t] =
                  IF call[t].id \in Ids(cameras) THEN [@ EXCEPT !.pc = "stop"]
                  ELSE IF call[t].op = "add" THEN [@ EXCEPT !.pc = "new"]
                  ELSE Returned(@, "False")]
    /\ NoCapture
    /\ UNCHANGED <<cameras, nexth>>
    /\ CallStep

\* try: self.cameras[camera_id].stop() except: pass -- the KeyError of an
\* id unmapped meanwhile is swallowed
StopStep(t) ==
    /\ call[t].op # "none" /\ call[t].pc = "stop"
    /\ LET old == get_camera(cameras, call[t].id)
       IN  IF old # None
           THEN /\ cam' = [cam EXCEPT ![old] = Stop(@)]
                /\ hist' = [hist EXCEPT ![old].stopped = TRUE]
           ELSE UNCHANGED <<cam, hist>>
    /\ call' = [call EXCEPT ![t].pc = IF call[t].op = "add" THEN "new" ELSE "del"]
    /\ UNCHANGED <<pc, first_run, cameras, nexth>>
    /\ CallStep

\* cam = Camera(source=source, name=...): the thread of the new Camera starts
NewStep(t) ==
    /\ call[t].op = "add" /\ call[t].pc = "new"
    /\ nexth < MaxHandles
    /\ \E kind \in RegSourceKinds :
          cam' = [cam EXCEPT ![nexth + 1] = NewCamera(kind)]
    /\ hist' = [hist EXCEPT ![nexth + 1] = NewHist(call[t].id)]
    /\ pc' = [pc EXCEPT ![nexth + 1] = "loop"]
    /\ first_run' = [first_run EXCEPT ![nexth + 1] = TRUE]
    /\ nexth' = nexth + 1
    /\ call' = [call EXCEPT ![t].pc = "set", ![t].h = nexth + 1]
    /\ UNCHANGED cameras
    /\ CallStep

\* self.cameras[camera_id] = cam; return cam
SetStep(t) ==
    /\ call[t].op = "add" /\ call[t].pc = "set"
    /\ cameras' = DictSet(cameras, call[t].id, call[t].h)
    /\ call' = [call EXCEPT ![t] = Returned(@, "cam")]
    /\ NoCapture
    /\ UNCHANGED nexth
    /\ CallStep

\* del self.cameras[camera_id]; return True -- KeyError if the id is no
\* longer mapped
DelStep(t) ==
    /\ call[t].op = "remove" /\ call[t].pc = "del"
    /\ IF call[t].id \in Ids(cameras)
       THEN /\ cameras' = DictDel(cameras, call[t].id)
            /\ call' = [call EXCEPT ![t] = Returned(@, "True")]
       ELSE /\ UNCHANGED cameras
            /\ call' = [call EXCEPT ![t] = Returned(@, "KeyError")]
    /\ NoCapture
    /\ UNCHANGED nexth
    /\ CallStep

NextRace ==
    \/ \E h \in H : WorkerStep(h)
    \/ \E t \in Threads, op \in {"add", "remove"}, id \in RaceIds : BeginCall(t, op, id)
    \/ \E t \in Threads : InStep(t)
    \/ \E t \in Threads : StopStep(t)
    \/ \E t \in Threads : NewStep(t)
    \/ \E t \in Threads : SetStep(t)
    \/ \E t \in Threads : DelStep(t)

\* An empty registry, two request threads in add_camera and remove_camera,
\* and the workers of the Cameras they construct.
SpecRace == InitReg /\ [][NextRace]_vars

\* ------------------------------------------------- the event images
\* The wall clock moves on to the next second of the minute.
SecondPasses ==
    /\ disk.sec = 0
    /\ disk' = [NoDisk(disk) EXCEPT !.sec = 1]
    /\ fired' = <<>> /\ result' = NoResult
    /\ synced' = FALSE
    /\ UNCHANGED <<now, pool, req, config, jobs>>
    /\ NoRegistry /\ NoCapture /\ NoRead

\* The application has started with camera c1 analysed every minute; the
\* camera reads a steady source and has stored its first frame; the
\* directory of the event images is followed.
InitEvents ==
    /\ cam = [h \in H |-> IF h = 1 THEN [StreamingCamera EXCEPT !.source = "steady"]
                           ELSE NoCamera]
    /\ pc = [h \in H |-> IF h = 1 THEN "loop" ELSE "unborn"]
    /\ first_run = [h \in H |-> h # 1]
    /\ hist = [h \in H |-> IF h = 1
                           THEN [NewHist("c1") EXCEPT !.opened_ok = TRUE, !.store_count = 1]
                           ELSE NewHist("c1")]
    /\ seen = [r \in Readers |-> [h \in H |-> -1]]
    /\ got = NoCall
    /\ cameras = <<[id |-> "c1", h |-> 1]>>
    /\ nexth = 1
    /\ ret = NoRet
    /\ ref = {"c1"}
    /\ now = Clock0 /\ pool = <<>> /\ fired = <<>> /\ result = NoResult
    /\ req = [t \in Threads |-> Idle]
    /\ stream = NoStream
    /\ lock = [h \in H |-> [holder |-> "free", calls |-> {}]]
    /\ call = [t \in Threads |->
                [op |-> "none", id |-> "", pc |-> "in", h |-> None, out |-> "none"]]
    /\ disk = [followed |-> TRUE, sec |-> 0, files |-> {}, events |-> {}]
    /\ LET cfg == [DefaultConfig EXCEPT
                      !.cameras = [c \in {"c1"} |-> TickEntry(TRUE, "interval", 1)]]
       IN  config = SyncedConfig(cfg) /\ jobs = SyncedJobs(cfg, {})
    /\ synced = TRUE

NextEvents ==
    \/ now < Clock0 + MaxTicks /\ Tick
    \/ SecondPasses
    \/ \E h \in H : WorkerStep(h)
    \/ \E i \in 1..Len(pool), outcome \in ConcOutcomes : BodyReturn(i, outcome, FALSE)
    \/ \E outcome \in ConcOutcomes : trigger_analysis_manual("c1", outcome)

\* The scheduler thread and its workers, a manual trigger, the worker of
\* the camera, and the files and rows the analyses write.
SpecEvents == InitEvents /\ [][NextEvents]_vars

\* --------------------------------------------------------- properties
\* The worker has given up: it left the loop by the break of the budget test.
Failed(h) == pc[h] = "failed"

\* C1: at most one worker that has not exited exists per camera id.
C1_OneWorkerPerId ==
    \A id \in CamIds : Cardinality({h \in H : Alive(h) /\ hist[h].id = id}) <= 1

\* C2: the registry is the set of ids whose last operation was add_camera,
\* one entry per id; get_camera returns a handle iff the id is in that set
\* (so None right after remove_camera); list_cameras returns those ids, each
\* once; remove_camera returns True iff the id was there, and when it
\* returns False it has changed nothing.
C2_RegistryIsReferenceSet ==
    /\ [](/\ Ids(cameras) = ref
          /\ Len(cameras) = Cardinality(ref)
          /\ ret.op = "get" => (ret.val # None <=> ret.id \in ref)
          /\ ret.op = "list" =>
                /\ {ret.val[i] : i \in 1..Len(ret.val)} = ref
                /\ Len(ret.val) = Cardinality(ref)
          /\ ret.op = "remove" =>
                /\ ret.val = ret.had
                /\ get_camera(cameras, ret.id) = None)
    /\ [][ret'.op = "remove" /\ ~ret'.val => UNCHANGED <<cameras, cam, pc>>]_vars

\* C2 witness: scenario C, two cameras registered and the first one removed.
C2_Witness ==
    /\ ret.op = "remove" /\ ret.val /\ ret.id = "c1"
    /\ cameras = <<[id |-> "c2", h |-> 2]>>

\* C3: once stop() has been called on a Camera, its worker starts no further
\* loop iteration (from the loop test it can only leave), and it does leave
\* the loop, whatever it was doing when stop() was called.
C3_StopEndsWorker ==
    /\ \A h \in H : hist[h].stopped ~> Exited(h)
    /\ [][\A h \in H : hist[h].stopped /\ pc[h] = "loop"
                          => pc'[h] \in {"loop", "done"}]_vars

\* C3 witness: stop() came after the worker's first attempt, and the worker
\* has left its loop by the loop test.
C3_Witness == \E h \in H : hist[h].stopped /\ pc[h] = "done" /\ ~first_run[h]

\* C4: while no open attempt has succeeded the worker makes at most
\* max_errors of them; a source that never opens ends in Failed (unless the
\* camera is stopped first); in Failed the running flag is false, and Failed
\* is left no more: no further attempt, the flag stays false.
C4_OpenBudget ==
    /\ [](\A h \in H : ~hist[h].opened_ok => hist[h].opens <= max_errors)
    /\ [](\A h \in H : Failed(h) => ~cam[h].running)
    /\ [][\A h \in H : Failed(h) =>
            Failed(h)' /\ ~cam'[h].running /\ hist'[h].opens = hist[h].opens]_vars
    /\ \A h \in H : (cam[h].source = "unopenable" /\ pc[h] # "unborn")
                        ~> (Failed(h) \/ hist[h].stopped)

\* C4 witness: Failed after exactly max_errors failed attempts, nobody
\* having stopped the camera.
C4_Witness ==
    \E h \in H : /\ Failed(h) /\ ~hist[h].stopped
                 /\ ~hist[h].opened_ok /\ hist[h].opens = max_errors

\* C5: a source whose reads all fail ends in Failed (unless the camera is
\* stopped first).
C5_ReadFailuresEndInFailed ==
    \A h \in H : (cam[h].source = "unreadable" /\ pc[h] # "unborn")
                     ~> (Failed(h) \/ hist[h].stopped)

\* C6: a stopped camera whose worker has exited holds no open capture.
C6_NoOpenCaptureAfterStop ==
    \A h \in H : hist[h].stopped /\ Exited(h) => cam[h].video # "open"

\* C7: get_frame returns None iff the worker has stored no frame, and
\* otherwise the frame stored last.
C7_GetFrameReturnsLatest ==
    got # NoCall =>
        /\ got.frame = None <=> hist[got.h].store_count = 0
        /\ hist[got.h].store_count > 0 => got.frame = hist[got.h].store_count

\* C7 witness: a call that returned the second frame stored.
C7_Witness == got # NoCall /\ got.frame = 2 /\ hist[got.h].store_count = 2

\* C8: the frames one reader gets from one handle, numbered in store order,
\* never go back.
C8_ReaderNeverGoesBack ==
    [][\A r \in Readers, h \in H : seen[r][h] <= seen'[r][h]]_vars

\* C8 witness: a reader reads frame 2 of a camera that has been stopped,
\* while another reader is still at frame 1.
C8_Witness ==
    \E h \in H : /\ got # NoCall /\ got.r = "r1" /\ got.h = h /\ got.frame = 2
                 /\ seen["r2"][h] = 1
                 /\ hist[h].stopped

\* C9: get_frame on a stopped camera returns None.
C9_StopClearsFrame ==
    got # NoCall /\ hist[got.h].stopped => got.frame = None

\* C10: in a state sync_schedules has just returned in, the job table holds
\* no analysis_<id> job of a camera that is not in the configuration, is
\* disabled or has schedule_enabled false, no meter_<id> job of a meter
\* that is not in the configuration, and no person_finder_scheduled job
\* when the finder's schedule is disabled.
C10_NoJobForDisabledOrRemoved ==
    synced =>
        /\ \A id \in CamIds :
              \/ /\ id \in DOMAIN config.cameras
                 /\ Get(config.cameras[id], "enabled", TRUE)
                 /\ Get(config.cameras[id], "schedule_enabled", FALSE)
              \/ ~get_job(jobs, "analysis_" \o id)
        /\ \A m \in MeterIds :
              \/ \E i \in 1..Len(config.utility_meters) : config.utility_meters[i].id = m
              \/ ~get_job(jobs, "meter_" \o m)
        /\ \/ Get(config.person_finder, "schedule_enabled", FALSE)
           \/ ~get_job(jobs, "person_finder_scheduled")

\* The trigger the configuration item asks for: an interval of its hours and
\* minutes (one hour when both are zero), or a cron trigger at its time of
\* day, every day or on its days.
Asks(item, trigger) ==
    LET type == Get(item, "schedule_type", "interval")
        hrs == Get(item, "schedule_interval_hrs", 0)
        mins == Get(item, "schedule_interval_mins", 0)
        parts == split(Get(item, "schedule_time", T0800))
    IN  CASE type = "daily" ->
                /\ trigger.kind = "cron" /\ trigger.day_of_week = "*"
                /\ Len(parts) >= 2 /\ trigger.hour = int(parts[1]) /\ trigger.minute = int(parts[2])
          [] type = "weekly" ->
                /\ trigger.kind = "cron" /\ trigger.day_of_week = join(Get(item, "schedule_days", <<>>))
                /\ Len(parts) >= 2 /\ trigger.hour = int(parts[1]) /\ trigger.minute = int(parts[2])
          [] OTHER ->
                /\ trigger.kind = "interval"
                /\ trigger.hours * 60 + trigger.minutes = IF hrs = 0 /\ mins = 0 THEN 60 ELSE hrs * 60 + mins

\* C11: in a state sync_schedules has just returned in, every enabled camera
\* with schedule_enabled true has exactly one job analysis_<id>, and the
\* patrol with schedule_enabled true exactly one job patrol_global, whose
\* trigger is the one the subject's configuration asks for.
C11_EnabledSubjectHasItsJob ==
    synced =>
        /\ \A id \in DOMAIN config.cameras :
              LET item == config.cameras[id]
                  js == {j \in jobs : j.id = "analysis_" \o id}
              IN  Get(item, "enabled", TRUE) /\ Get(item, "schedule_enabled", FALSE)
                      => Cardinality(js) = 1 /\ \A j \in js : Asks(item, j.trigger)
        /\ LET js == {j \in jobs : j.id = "patrol_global"}
           IN  Get(config.patrol, "schedule_enabled", FALSE)
                   => Cardinality(js) = 1 /\ \A j \in js : Asks(config.patrol, j.trigger)

Schedule(js) == {[id |-> j.id, func |-> j.func, trigger |-> j.trigger, args |-> j.args] : j \in js}

\* C13: whatever the configuration and the job table, sync_schedules called
\* twice in a row leaves the job ids, trigger kinds and parameters that one
\* call leaves, one job per id; and what a tick fires once the schedules
\* are synced, it fires once.
C13_SyncIsIdempotent ==
    LET once == SyncedJobs(config, jobs)
        twice == SyncedJobs(SyncedConfig(config), once)
    IN  /\ Schedule(twice) = Schedule(once)
        /\ Cardinality(twice) = Cardinality({j.id : j \in once})
        /\ synced => Cardinality({fired[i].id : i \in 1..Len(fired)}) = Len(fired)

\* The schedules are synced, four subjects have a job, and the tick at
\* 08:00 has fired every one of them.
C13_Witness ==
    /\ synced /\ Cardinality(jobs) = 4 /\ Len(fired) = 4
    /\ Schedule(SyncedJobs(config, jobs)) = Schedule(jobs)

\* C14: once sync_schedules has returned, and until another handler
\* reschedules it, a tick fires the job of a scheduled camera or of the
\* scheduled patrol by the trigger its configuration asks for only: the
\* job that was replaced does not fire.
C14_ReplacedJobNeverFires ==
    synced =>
        \A i \in 1..Len(fired) :
            /\ \A id \in DOMAIN config.cameras :
                  LET item == config.cameras[id]
                  IN  /\ fired[i].id = "analysis_" \o id
                      /\ Get(item, "enabled", TRUE) /\ Get(item, "schedule_enabled", FALSE)
                      => Asks(item, fired[i].trigger)
            /\ fired[i].id = "patrol_global" /\ Get(config.patrol, "schedule_enabled", FALSE)
                  => Asks(config.patrol, fired[i].trigger)

\* Camera c1's job has fired by its interval of one minute and the run has
\* not returned, sync_schedules has replaced the job by the daily one, and
\* a tick has passed since.
C14_Witness ==
    /\ synced /\ now = Clock0 + 2
    /\ \E i \in 1..Len(pool) : pool[i].id = "analysis_c1" /\ pool[i].trigger.kind = "interval"
    /\ \E j \in jobs : j.id = "analysis_c1" /\ j.trigger.kind = "cron"
    /\ \E i \in 1..Len(fired) : fired[i].id = "patrol_global"

\* C15: at every tick at which the interval job of a camera is due,
\* perform_analysis is invoked for it, once and with the camera id as its
\* argument: the due run is on a worker, it is neither skipped nor waiting.
C15_OncePerElapsedInterval ==
    /\ Cardinality({fired[i].id : i \in 1..Len(fired)}) = Len(fired)
    /\ \A i \in 1..Len(fired) :
          fired[i].func = "perform_analysis" /\ fired[i].trigger.kind = "interval"
              => /\ fired[i].state = "running"
                 /\ \E id \in CamIds : fired[i].id = "analysis_" \o id /\ fired[i].args = <<id>>

\* C16: a step in which trigger_analysis_manual returns for a camera that
\* has no job has run perform_analysis for that camera, once and in the
\* caller's thread, and has left the job table, the pool of runs and the
\* configuration as they were.
C16_ManualTriggerRunsOnce ==
    [][ (/\ result'.func # "none" /\ result'.by = "manual"
         /\ ~get_job(jobs, "analysis_" \o result'.args[1]))
        => /\ result'.func = "perform_analysis" /\ Len(result'.args) = 1
           /\ jobs' = jobs /\ pool' = pool /\ fired' = <<>> /\ config' = config ]_vars

\* The manual trigger has analysed camera c1, which has no job, and the
\* job table holds the jobs of other subjects.
C16_Witness ==
    /\ result.func = "perform_analysis" /\ result.by = "manual" /\ result.args = <<"c1">>
    /\ result.status = "success"
    /\ ~get_job(jobs, "analysis_c1") /\ jobs # {}

\* C17: a job body that has returned 'success' had acquired a frame and
\* its AI call had answered; a body whose frame was missing or whose AI
\* call failed or was not made has returned the status 'error'.
C17_SuccessOnlyWithFrameAndAnswer ==
    result.func # "none" /\ (result.frame = None \/ result.ai # "ok") => result.status = "error"

\* C18: a step in which perform_analysis returns for a camera id that has
\* no Camera in the registry, or whose Camera has stored no frame, returns
\* the status 'error', with no AI call made, no event persisted and no
\* notification sent, and leaves the registry, the running flag of every
\* Camera and the job table as they were.
C18_NoFrameIsAnErrorWithoutEffects ==
    [][ result'.func = "perform_analysis" /\ result'.frame = None
        => /\ result'.status = "error" /\ result'.ai = "none"
           /\ ~result'.persisted /\ ~result'.notified
           /\ cameras' = cameras /\ jobs' = jobs
           /\ \A h \in H : cam'[h].running = cam[h].running ]_vars

\* The job of camera c1 has run perform_analysis on a Camera that is
\* registered and running and has stored no frame, and has returned an
\* error; the job is still in the table.
C18_Witness ==
    /\ result.func = "perform_analysis" /\ result.by = "scheduler" /\ result.args = <<"c1">>
    /\ result.status = "error" /\ result.frame = None
    /\ get_camera(cameras, "c1") # None /\ cam[get_camera(cameras, "c1")].running
    /\ FrameOf("c1") = None
    /\ get_job(jobs, "analysis_c1")

\* C19: a step in which a job body run by the scheduler raises or returns
\* an error leaves the job table as it was, every job with its trigger and
\* its next due time, and no run of the body's job unfinished, so that the
\* run due at the job's next tick is submitted and not skipped.
C19_FailedBodyKeepsItsJob ==
    [][ (/\ result'.func # "none" /\ result'.by = "scheduler"
         /\ result'.status \in {"error", "raised"})
        => /\ jobs' = jobs
           /\ \A j \in jobs : j.func = result'.func /\ j.args = result'.args
                                  => Instances(pool', j.id) = 0 ]_vars

\* The body of the patrol's job, fired at 08:00, has raised: the job is in
\* the table with its daily trigger, due the next day, and none of its
\* runs is unfinished.
C19_Witness ==
    /\ result.func = "perform_home_patrol" /\ result.by = "scheduler" /\ result.status = "raised"
    /\ \E j \in jobs : /\ j.id = "patrol_global" /\ j.trigger.kind = "cron"
                       /\ j.next_run_time = Day + 8 * 60
    /\ Instances(pool, "patrol_global") = 0

\* C20: every run a tick submits goes to a worker of its own at once:
\* whatever other bodies are still in their AI call, no due run waits for
\* a worker.
C20_EveryDueRunGetsAWorker ==
    /\ \A i \in 1..Len(pool) : pool[i].state = "running"
    /\ \A i \in 1..Len(fired) : fired[i].state # "queued"

\* C21: after every completed configuration request, the registry maps a
\* camera id only if the configuration holds the id and has it enabled,
\* and maps it once.
C21_HandleOnlyForEnabledCamera ==
    /\ Len(cameras) = Cardinality(Ids(cameras))
    /\ \A id \in Ids(cameras) :
          /\ id \in DOMAIN config.cameras
          /\ Get(config.cameras[id], "enabled", TRUE)

\* C22: a pass of generate_frames that gets a frame sets the count of empty
\* passes to zero and goes on; a pass that gets none adds one to it, and the
\* stream ends in that pass exactly when the count exceeds max_empty; no
\* other step ends the stream.
C22_StreamEndsOnlyAfterMaxEmpty ==
    [][/\ stream.state = "open" /\ got' # NoCall /\ got'.frame # None
            => stream'.state = "open" /\ stream'.empty_count = 0
       /\ stream.state = "open" /\ got' # NoCall /\ got'.frame = None
            => /\ stream'.empty_count = stream.empty_count + 1
               /\ stream'.state = "ended" <=> stream'.empty_count > max_empty
       /\ stream.state = "open" /\ stream'.state # "open"
            => got' # NoCall /\ got'.frame = None /\ stream.empty_count = max_empty
      ]_vars

\* A stream of a camera that never had a frame has ended after 601 passes.
C22_Witness ==
    /\ stream.state = "ended"
    /\ stream.empty_count = max_empty + 1
    /\ cam[stream.h].last_encoded_frame = None

\* C23: every frame the live stream serves is read from a Camera the
\* registry holds at that time: once remove_camera has taken a Camera out,
\* the stream serves no frame of it.
C23_NoFrameFromRemovedHandle ==
    got # NoCall /\ got.frame # None
        => \E i \in 1..Len(cameras) : cameras[i].h = got.h

\* C24: every interval job in the job table has an interval of positive
\* length: sync_schedules turns 0 hours 0 minutes into one hour, and no
\* request installs an interval of length zero, which fires at every tick of
\* the scheduler's clock.
C24_NoZeroLengthInterval ==
    \A j \in jobs : j.trigger.kind = "interval" => IntervalLength(j.trigger) > 0

\* C30: in every state of every Camera, error_count is at most
\* max_errors + 1.
C30_ErrorCountWithinBudget ==
    \A h \in H : cam[h].error_count <= max_errors + 1

\* C26: a step of the worker in which grab or retrieve fails adds one to
\* error_count and leaves the capture released, so that the next pass of the
\* loop takes the reconnect branch.
C26_ReadFailureReleasesCapture ==
    [][\A h \in H :
          pc[h] \in {"grab", "retrieve"} /\ cam'[h].error_count = cam[h].error_count + 1
              => pc'[h] = "loop" /\ cam'[h].video # "open"]_vars

\* C29: once stop() has returned, the worker of the Camera makes at most
\* one more attempt to open the source and stores at most one more frame,
\* and not both.
C29_AtMostOneLateOpenOrStore ==
    \A h \in H : hist[h].late_opens + hist[h].late_stores <= 1

\* A worker that was about to store when stop() returned has stored that
\* frame and exited.
C29_Witness ==
    \E h \in H : hist[h].stopped /\ Exited(h) /\ hist[h].late_stores = 1

\* C25: the worker holds the lock of its Camera only in the block that
\* assigns the frame, a reader only between taking the lock in get_frame
\* and returning; and every call of get_frame returns, whatever the worker
\* and stop() do meanwhile.
C25_LockHeldBrieflyAndGetFrameReturns ==
    /\ [](\A h \in H :
            /\ lock[h].holder = "worker" => pc[h] = "store"
            /\ lock[h].holder \in Readers => lock[h].holder \in lock[h].calls)
    /\ \A r \in Readers, h \in LockCams :
            (r \in lock[h].calls) ~> (r \notin lock[h].calls)

\* Both readers wait in get_frame while the worker of a stopped Camera
\* holds the lock.
C25_Witness ==
    \E h \in H :
        /\ lock[h].holder = "worker"
        /\ lock[h].calls = Readers
        /\ hist[h].stopped

\* C27: whenever no add_camera or remove_camera call is in progress, every
\* Camera that was constructed and whose running flag is still set is the
\* one the registry maps its id to.
C27_NoOrphanWorker ==
    (\A t \in Threads : call[t].op = "none") =>
        \A h \in H : pc[h] # "unborn" /\ cam[h].running
                         => get_camera(cameras, hist[h].id) = h

\* C28: no call of remove_camera raises: of two calls that both found the
\* id mapped, one deletes it and returns True and the other returns.
C28_ConcurrentRemovesDoNotRaise ==
    \A t \in Threads : call[t].out # "KeyError"

\* C35: the Camera a live stream reads is the Camera of the id the request
\* asked for: a request for an id the registry does not hold gets no stream.
C35_StreamOfRequestedCamera ==
    stream.state # "none" => hist[stream.h].id = stream.id

\* C33: a request of update_camera or delete_camera that reports a failure
\* has left the configuration in memory, the registry and the job table as
\* they were.
C33_FailedSaveChangesNothing ==
    [][ret'.op \in {"update_camera", "delete_camera"}
          => UNCHANGED <<config, cameras, jobs>>]_vars

\* C36: the worker does not sleep before its first attempt to open; the
\* cooldown it has slept before a later attempt is min(5.0, 1.0 + 0.5 *
\* error_count) seconds (in tenths of a second: min(50, 10 + 5 *
\* error_count)), which is at least 1 s, at most 5 s, and does not decrease
\* when error_count grows.
C36_CooldownIsBoundedBackoff ==
    /\ \A h \in H :
          /\ first_run[h] => hist[h].slept = 0
          /\ hist[h].slept # 0 => 10 <= hist[h].slept /\ hist[h].slept <= 50
          /\ pc[h] = "incr" /\ ~first_run[h] =>
                LET n == cam[h].error_count
                IN  hist[h].slept = IF 10 + 5 * n <= 50 THEN 10 + 5 * n ELSE 50
    /\ \A n \in 0..MaxErrorCount : sleep_time(n) <= sleep_time(n + 1)

\* The worker has slept the capped five seconds after its ninth error.
C36_Witness ==
    \E h \in H : pc[h] = "incr" /\ cam[h].error_count = 9 /\ hist[h].slept = 50

\* C31: a sync_schedules that finds the schedule of a job as it was does
\* not move the next firing of the job to a later time: a step in which no
\* time passes leaves every job that keeps its id and trigger due no later
\* than it was.
C31_SyncDoesNotPostpone ==
    [][now' = now =>
          \A j \in jobs, k \in jobs' :
              j.id = k.id /\ j.trigger = k.trigger
                  => k.next_run_time <= j.next_run_time]_vars

\* C32: no call of sync_schedules raises: every remove_job it makes, after
\* get_job has found the job, finds the job still in the table, whatever
\* another sync_schedules does meanwhile.
C32_ConcurrentSyncsDoNotRaise ==
    [][\A t \in Threads :
          req[t].op = "sync" /\ req[t].pc = "remove" /\ req'[t] # req[t]
              => get_job(jobs, Head(req[t].passes).job_id)]_vars

\* C34: the image stored under the image_path of every event is the frame
\* the invocation that wrote the event analysed.
C34_EventImageIsItsOwnFrame ==
    \A e \in disk.events :
        \E f \in disk.files : f.path = e.image_path /\ f.frame = e.frame
====
